---- MODULE Spec2Model ----
(***************************************************************************)
(* Damage calculator (src/app.py): DamageCalculator.calculate_damage, the  *)
(* three-hit mechanic, and the /optimize, /optimize_advanced and           *)
(* /optimize_stats handlers, over the WEAPON_DB and EQUIPMENT_DB tables.   *)
(*                                                                         *)
(* Numbers.  The program computes in floating point with constants such as *)
(* 2.96, 0.85, 1.75 and 1.18.  Every constant is a finite decimal and the  *)
(* program only adds, subtracts, multiplies, halves and divides by 100, so *)
(* every intermediate value is a finite decimal.  The model computes these *)
(* values exactly: a number is a record [s, m, e] standing for             *)
(* s * m / 10^e, where s is 1 or -1 and m is a natural number of arbitrary *)
(* size kept as a sequence of base-10000 limbs, lowest limb first.         *)
(***************************************************************************)
EXTENDS Integers, Sequences, FiniteSets, TLC

\* ------------------------------------------------------------------------
\* Natural numbers of arbitrary size (limb sequences, lowest limb first,
\* no zero limb at the high end; zero is the empty sequence).

Base == 10^4

RECURSIVE BNorm(_)
BNorm(a) ==
    IF a = <<>> THEN <<>>
    ELSE IF a[Len(a)] = 0 THEN BNorm(SubSeq(a, 1, Len(a) - 1))
    ELSE a

RECURSIVE BFromNat(_)
BFromNat(n) ==
    IF n = 0 THEN <<>> ELSE <<n % Base>> \o BFromNat(n \div Base)

RECURSIVE BAddC(_, _, _)
BAddC(a, b, c) ==
    IF a = <<>> /\ b = <<>> THEN (IF c = 0 THEN <<>> ELSE <<c>>)
    ELSE LET x == (IF a = <<>> THEN 0 ELSE Head(a))
                  + (IF b = <<>> THEN 0 ELSE Head(b)) + c
         IN  <<x % Base>> \o BAddC(IF a = <<>> THEN <<>> ELSE Tail(a),
                                   IF b = <<>> THEN <<>> ELSE Tail(b),
                                   x \div Base)

BAdd(a, b) == BAddC(a, b, 0)

\* a - b for a >= b, with borrow c.
RECURSIVE BSubC(_, _, _)
BSubC(a, b, c) ==
    IF a = <<>> THEN <<>>
    ELSE LET x == Head(a) - (IF b = <<>> THEN 0 ELSE Head(b)) - c
         IN  <<IF x < 0 THEN x + Base ELSE x>>
             \o BSubC(Tail(a), IF b = <<>> THEN <<>> ELSE Tail(b),
                      IF x < 0 THEN 1 ELSE 0)

BSub(a, b) == BNorm(BSubC(a, b, 0))

\* -1, 0, 1 as a < b, a = b, a > b (compared from the high limb down).
RECURSIVE BCmpAt(_, _, _)
BCmpAt(a, b, i) ==
    IF i = 0 THEN 0
    ELSE IF a[i] < b[i] THEN -1
    ELSE IF a[i] > b[i] THEN 1
    ELSE BCmpAt(a, b, i - 1)

BCmp(a, b) ==
    IF Len(a) < Len(b) THEN -1
    ELSE IF Len(a) > Len(b) THEN 1
    ELSE BCmpAt(a, b, Len(a))

\* a * c for one limb c (0 <= c < Base), with carry.
RECURSIVE BMulLimbC(_, _, _)
BMulLimbC(a, c, carry) ==
    IF a = <<>> THEN (IF carry = 0 THEN <<>> ELSE <<carry>>)
    ELSE LET x == Head(a) * c + carry
         IN  <<x % Base>> \o BMulLimbC(Tail(a), c, x \div Base)

BMulLimb(a, c) == IF c = 0 THEN <<>> ELSE BMulLimbC(a, c, 0)

RECURSIVE BMul(_, _)
BMul(a, b) ==
    IF a = <<>> \/ b = <<>> THEN <<>>
    ELSE BAdd(BMulLimb(b, Head(a)),
              LET r == BMul(Tail(a), b) IN IF r = <<>> THEN <<>> ELSE <<0>> \o r)

\* a * 10^k.
RECURSIVE BShift10(_, _)
BShift10(a, k) ==
    IF a = <<>> \/ k = 0 THEN a
    ELSE IF k >= 4 THEN BShift10(<<0>> \o a, k - 4)
    ELSE BShift10(BMulLimb(a, 10), k - 1)

\* a \div 10 and a % 10.
BDiv10(a) ==
    BNorm([i \in 1..Len(a) |->
             (a[i] \div 10) + (IF i < Len(a) THEN (a[i + 1] % 10) * 1000 ELSE 0)])

BMod10(a) == IF a = <<>> THEN 0 ELSE a[1] % 10

\* ------------------------------------------------------------------------
\* Signed decimals [s, m, e] = s * m / 10^e.  Zero is always [1, <<>>, 0].

DZero == [s |-> 1, m |-> <<>>, e |-> 0]

\* Strip trailing decimal zeros: the one record that stands for the value.
RECURSIVE DCanon(_)
DCanon(d) ==
    IF d.m = <<>> THEN DZero
    ELSE IF d.e > 0 /\ BMod10(d.m) = 0
         THEN DCanon([s |-> d.s, m |-> BDiv10(d.m), e |-> d.e - 1])
    ELSE d

\* The integer n, and n / 10^e (n an integer small enough for the tool).
DInt(n) == IF n < 0 THEN [s |-> -1, m |-> BFromNat(-n), e |-> 0]
           ELSE [s |-> 1, m |-> BFromNat(n), e |-> 0]

DQ(n, e) == DCanon([s |-> IF n < 0 THEN -1 ELSE 1,
                    m |-> BFromNat(IF n < 0 THEN -n ELSE n), e |-> e])

DNeg(d) == IF d.m = <<>> THEN DZero ELSE [d EXCEPT !.s = -d.s]

\* sa * am / 10^e + sb * bm / 10^e.
AddAligned(sa, am, sb, bm, e) ==
    DCanon(IF sa = sb THEN [s |-> sa, m |-> BAdd(am, bm), e |-> e]
           ELSE IF BCmp(am, bm) >= 0 THEN [s |-> sa, m |-> BSub(am, bm), e |-> e]
           ELSE [s |-> sb, m |-> BSub(bm, am), e |-> e])

MaxOf(i, j) == IF i > j THEN i ELSE j

DAdd(a, b) ==
    AddAligned(a.s, BShift10(a.m, MaxOf(a.e, b.e) - a.e),
               b.s, BShift10(b.m, MaxOf(a.e, b.e) - b.e), MaxOf(a.e, b.e))

DSub(a, b) == DAdd(a, DNeg(b))

DMul(a, b) ==
    DCanon([s |-> a.s * b.s, m |-> BMul(a.m, b.m), e |-> a.e + b.e])

\* -1, 0, 1 as a < b, a = b, a > b.
DCmp(a, b) ==
    IF a.s # b.s THEN (IF a.m = <<>> /\ b.m = <<>> THEN 0 ELSE a.s)
    ELSE a.s * BCmp(BShift10(a.m, MaxOf(a.e, b.e) - a.e),
                    BShift10(b.m, MaxOf(a.e, b.e) - b.e))

DLe(a, b) == DCmp(a, b) <= 0
DLt(a, b) == DCmp(a, b) < 0
DEq(a, b) == DCmp(a, b) = 0
DMin(a, b) == IF DLe(a, b) THEN a ELSE b

\* x / 2 and x / 100 of the program.
DHalf(a) == DMul(a, DQ(5, 1))
DPercent(a) == DMul(a, DQ(1, 2))

\* round(x, k): the nearest multiple of 10^-k, a tie going to the even one.
\* (The program rounds the binary double nearest to x; the model rounds x.)
RECURSIVE DropDigits(_, _, _, _)
DropDigits(m, n, last, sticky) ==
    IF n = 0 THEN [q |-> m, last |-> last, sticky |-> sticky]
    ELSE DropDigits(BDiv10(m), n - 1, BMod10(m), sticky \/ last # 0)

\* The quotient r.q rounded by the digits dropped from it.
RoundedUp(r) ==
    LET up == \/ r.last > 5
              \/ r.last = 5 /\ r.sticky
              \/ r.last = 5 /\ ~r.sticky /\ BMod10(r.q) % 2 = 1
    IN  IF up THEN BAdd(r.q, <<1>>) ELSE r.q

DRound(d, k) ==
    IF d.e <= k THEN d
    ELSE DCanon([s |-> d.s, m |-> RoundedUp(DropDigits(d.m, d.e - k, 0, FALSE)),
                 e |-> k])


\* round(a / b, k) for b > 0: long division on the mantissas, one decimal
\* digit of the quotient at a time.

\* Subtract d from r while it fits, counting onto the quotient q.
RECURSIVE TakeOut(_, _, _)
TakeOut(q, r, d) ==
    IF BCmp(r, d) < 0 THEN [q |-> q, r |-> r]
    ELSE TakeOut(BAdd(q, <<1>>), BSub(r, d), d)

TimesTen(qr) == [q |-> BMulLimb(qr.q, 10), r |-> qr.r]

RECURSIVE BDivMod(_, _)
BDivMod(n, d) ==
    IF BCmp(n, d) < 0 THEN [q |-> <<>>, r |-> n]
    ELSE LET up == TimesTen(BDivMod(n, BMulLimb(d, 10)))
         IN  TakeOut(up.q, up.r, d)

\* The quotient qr.q rounded by the remainder qr.r of the division by d.
QuotientRounded(qr, d) ==
    LET c == BCmp(BMulLimb(qr.r, 2), d)
    IN  IF c > 0 \/ (c = 0 /\ BMod10(qr.q) % 2 = 1) THEN BAdd(qr.q, <<1>>)
        ELSE qr.q

RoundedQuotient(n, d) == QuotientRounded(BDivMod(n, d), d)

\* a / b cut after k decimals, not rounded.
DDivCut(a, b, k) ==
    DCanon([s |-> a.s * b.s,
            m |-> BDivMod(BShift10(a.m, b.e + k), BShift10(b.m, a.e)).q,
            e |-> k])

DDivRound(a, b, k) ==
    DCanon([s |-> a.s * b.s,
            m |-> RoundedQuotient(BShift10(a.m, b.e + k), BShift10(b.m, a.e)),
            e |-> k])

\* int(x) of a number: the digits after the point are dropped.
DTrunc(d) == DCanon([s |-> d.s, m |-> DropDigits(d.m, d.e, 0, FALSE).q, e |-> 0])

\* ------------------------------------------------------------------------
\* Python dictionaries are functions on the keys they hold.

EmptyDict == [k \in {} |-> 0]

Has(d, k) == k \in DOMAIN d

Get(d, k, default) == IF k \in DOMAIN d THEN d[k] ELSE default

\* WEAPON_DB (src/app.py): the keys in the order the table lists them, and the entries.
WeaponDbSourceKeys ==
    << "wooden_sword", "wooden_staff", "wooden_bow", "divine_blade",
       "forest_dweller_staff", "forest_dweller_bow", "crescendo_scythe", "emerald_staff",
       "winter_howl", "eventide" >>

WeaponDbSourceItems ==
    [ wooden_sword |->
        [name |-> "Wooden Sword",
         type |-> "sword",
         stats |-> [atk_min |-> 5, atk_max |-> 5],
         set |-> "blessing",
         level_req |-> 1],
      wooden_staff |->
        [name |-> "Wooden Staff",
         type |-> "staff",
         stats |-> [magic |-> 4],
         set |-> "blessing",
         level_req |-> 1],
      wooden_bow |->
        [name |-> "Wooden Bow",
         type |-> "bow",
         stats |-> [atk_min |-> 5, atk_max |-> 5],
         set |-> "blessing",
         level_req |-> 1],
      divine_blade |->
        [name |-> "Divine Blade",
         type |-> "sword",
         stats |-> [atk_min |-> 75, atk_max |-> 83],
         set |-> "explorer",
         level_req |-> 15],
      forest_dweller_staff |->
        [name |-> "Forest Dweller's Staff",
         type |-> "staff",
         stats |-> [magic |-> 60],
         set |-> "explorer",
         level_req |-> 15],
      forest_dweller_bow |->
        [name |-> "Forest Dweller's Bow",
         type |-> "bow",
         stats |-> [atk_min |-> 75, atk_max |-> 83],
         set |-> "explorer",
         level_req |-> 15],
      crescendo_scythe |->
        [name |-> "Crescendo Scythe",
         type |-> "scythe",
         stats |-> [atk_min |-> 75, atk_max |-> 75],
         set |-> "library_ruina",
         level_req |-> 15],
      emerald_staff |->
        [name |-> "Emerald Staff",
         type |-> "staff",
         stats |-> [magic |-> 500],
         level_req |-> 65],
      winter_howl |->
        [name |-> "Winter Howl",
         type |-> "sword",
         stats |-> [atk_min |-> 325, atk_max |-> 360],
         set |-> "wolf_howl",
         level_req |-> 65],
      eventide |->
        [name |-> "Eventide",
         type |-> "bow",
         stats |-> [atk_min |-> 325, atk_max |-> 360],
         set |-> "queen_bee",
         level_req |-> 65] ]

WeaponDbSource == [keys |-> WeaponDbSourceKeys, items |-> WeaponDbSourceItems]

\* EQUIPMENT_DB (src/app.py): the keys in the order the table lists them, and the entries.
EquipmentDbSourceKeys ==
    << "burning_torch", "climbing_hook", "hunting_dagger", "lantern",
       "metal_plate", "mining_pickaxe", "rabbits_foot", "sharpener_rock",
       "travellers_boots", "adventurers_kit", "ancient_hammer", "ancient_wood_armor",
       "copper_sword", "dual_sword", "forest_dweller_axe", "volatile_crystal",
       "alderite_axe", "aqua_crystal", "arcane_spellbook", "corrupted_fang",
       "daybreak", "enchanted_blade", "magicians_hat", "mana_lantern",
       "atlantis_armor", "bee_breastplate", "black_wolf_necklace", "blood_butcher",
       "crimson_slime_fang", "cursed_spellbook", "evernight", "forest_crown",
       "ghost_lantern", "slime_crown", "volcanic_axe", "winter_spirit",
       "queenbee_crown", "volatile_gem", "mana_crystal", "aqua_lapis" >>

EquipmentDbSourceItems ==
    [ burning_torch |->
        [name |-> "Burning Torch",
         tier |-> "I",
         stats |-> [atk_min |-> 5, atk_max |-> 5],
         special_effects |-> EmptyDict,
         level_req |-> 1],
      climbing_hook |->
        [name |-> "Climbing Hook",
         tier |-> "I",
         stats |-> [atk_min |-> 5, atk_max |-> 5],
         special_effects |-> EmptyDict,
         level_req |-> 1],
      hunting_dagger |->
        [name |-> "Hunting Dagger",
         tier |-> "I",
         stats |-> [atk_min |-> 5, atk_max |-> 5],
         special_effects |-> EmptyDict,
         set |-> "explorer",
         level_req |-> 1],
      lantern |->
        [name |-> "Lantern",
         tier |-> "I",
         stats |-> [magic |-> 5],
         special_effects |-> EmptyDict,
         level_req |-> 5],
      metal_plate |->
        [name |-> "Metal Plate",
         tier |-> "I",
         stats |-> [shield |-> 10],
         special_effects |-> EmptyDict,
         level_req |-> 2],
      mining_pickaxe |->
        [name |-> "Mining Pickaxe",
         tier |-> "I",
         stats |-> [atk_min |-> 5, atk_max |-> 5],
         special_effects |-> EmptyDict,
         level_req |-> 1],
      rabbits_foot |->
        [name |-> "Rabbit's Foot",
         tier |-> "I",
         stats |-> [crit_chance |-> 3],
         special_effects |-> EmptyDict,
         level_req |-> 5],
      sharpener_rock |->
        [name |-> "Sharpener's Rock",
         tier |-> "I",
         stats |-> [crit_chance |-> 5, crit_damage |-> 10],
         special_effects |-> EmptyDict,
         level_req |-> 10],
      travellers_boots |->
        [name |-> "Traveller's Boots",
         tier |-> "I",
         stats |-> [health |-> 20],
         special_effects |-> EmptyDict,
         level_req |-> 1],
      adventurers_kit |->
        [name |-> "Adventurer's Kit",
         tier |-> "II",
         stats |-> [health |-> 50, shield |-> 10],
         special_effects |-> EmptyDict,
         level_req |-> 25],
      ancient_hammer |->
        [name |-> "Ancient Hammer",
         tier |-> "II",
         stats |-> [atk_min |-> 50, atk_max |-> 50],
         special_effects |-> EmptyDict,
         level_req |-> 10],
      ancient_wood_armor |->
        [name |-> "Ancient Wood Armor",
         tier |-> "II",
         stats |-> [health |-> 80, shield |-> 15],
         special_effects |-> EmptyDict,
         level_req |-> 10],
      copper_sword |->
        [name |-> "Copper Sword",
         tier |-> "II",
         stats |-> [atk_min |-> 30, atk_max |-> 30],
         special_effects |-> EmptyDict,
         level_req |-> 5],
      dual_sword |->
        [name |-> "Dual Sword",
         tier |-> "II",
         stats |-> [atk_min |-> 135, atk_max |-> 149],
         special_effects |-> [double_damage_chance |-> DQ(15, 2)],
         level_req |-> 100],
      forest_dweller_axe |->
        [name |-> "Forest Dweller's Axe",
         tier |-> "II",
         stats |-> [atk_min |-> 40, atk_max |-> 40, crit_chance |-> 5],
         special_effects |-> [bleed_chance |-> DQ(2, 2)],
         set |-> "forest_dweller",
         level_req |-> 10],
      volatile_crystal |->
        [name |-> "Volatile Crystal",
         tier |-> "II",
         stats |-> [magic |-> 45],
         special_effects |-> EmptyDict,
         level_req |-> 5],
      alderite_axe |->
        [name |-> "Alderite Axe",
         tier |-> "III",
         stats |-> [atk_min |-> 175, atk_max |-> 194, magic |-> 140, crit_chance |-> 5],
         special_effects |-> EmptyDict,
         level_req |-> 35],
      aqua_crystal |->
        [name |-> "Aqua Crystal",
         tier |-> "III",
         stats |-> [magic |-> 110],
         special_effects |-> EmptyDict,
         level_req |-> 30],
      arcane_spellbook |->
        [name |-> "Arcane Spellbook",
         tier |-> "III",
         stats |-> [magic |-> 100],
         special_effects |-> EmptyDict,
         level_req |-> 25],
      corrupted_fang |->
        [name |-> "Corrupted Fang",
         tier |-> "III",
         stats |-> [magic |-> 130, atk_min |-> 35, atk_max |-> 35],
         special_effects |-> EmptyDict,
         level_req |-> 30],
      daybreak |->
        [name |-> "Daybreak",
         tier |-> "III",
         stats |-> [atk_min |-> 100, atk_max |-> 111],
         special_effects |-> [burn_chance |-> DQ(52, 2)],
         set |-> "flame",
         level_req |-> 70],
      enchanted_blade |->
        [name |-> "Enchanted Blade",
         tier |-> "III",
         stats |-> [atk_min |-> 125, atk_max |-> 125, magic |-> 100],
         special_effects |-> EmptyDict,
         level_req |-> 25],
      magicians_hat |->
        [name |-> "Magician's Hat",
         tier |-> "III",
         stats |-> [magic |-> 80, health |-> 30],
         special_effects |-> EmptyDict,
         level_req |-> 25],
      mana_lantern |->
        [name |-> "Mana Lantern",
         tier |-> "III",
         stats |-> [magic |-> 90],
         special_effects |-> EmptyDict,
         level_req |-> 25],
      atlantis_armor |->
        [name |-> "Atlantis Armor",
         tier |-> "IV",
         stats |-> [health |-> 75, shield |-> 10],
         special_effects |-> EmptyDict,
         level_req |-> 50],
      bee_breastplate |->
        [name |-> "Bee Breastplate",
         tier |-> "IV",
         stats |-> [health |-> 460, shield |-> 40],
         special_effects |-> EmptyDict,
         set |-> "queen_bee",
         level_req |-> 65],
      black_wolf_necklace |->
        [name |-> "Black Wolf Necklace",
         tier |-> "IV",
         stats |-> [atk_min |-> 225, atk_max |-> 249, crit_chance |-> 15, crit_damage |-> 22],
         special_effects |-> EmptyDict,
         set |-> "wolf_howl",
         level_req |-> 65],
      blood_butcher |->
        [name |-> "Blood Butcher",
         tier |-> "IV",
         stats |-> [atk_min |-> 250, atk_max |-> 277, crit_chance |-> 16],
         special_effects |-> [blood_butcher |-> TRUE],
         set |-> "crimson",
         level_req |-> 50],
      crimson_slime_fang |->
        [name |-> "Crimson Slime Fang",
         tier |-> "IV",
         stats |-> [magic |-> 220, crit_damage |-> 27],
         special_effects |-> EmptyDict,
         set |-> "crimson",
         level_req |-> 65],
      cursed_spellbook |->
        [name |-> "Cursed Spellbook",
         tier |-> "IV",
         stats |-> [magic |-> 400],
         special_effects |-> [damage_multiplier |-> DQ(13, 1)],
         set |-> "crimson",
         level_req |-> 100],
      evernight |->
        [name |-> "Evernight",
         tier |-> "IV",
         stats |-> [atk_min |-> 450, atk_max |-> 450],
         special_effects |-> [burn_chance |-> DQ(4, 1)],
         set |-> "flame",
         level_req |-> 100],
      forest_crown |->
        [name |-> "Forest Crown",
         tier |-> "IV",
         stats |-> [health |-> 775, shield |-> 275],
         special_effects |-> EmptyDict,
         level_req |-> 65],
      ghost_lantern |->
        [name |-> "Ghost Lantern",
         tier |-> "IV",
         stats |-> [magic |-> 480],
         special_effects |-> EmptyDict,
         level_req |-> 65],
      slime_crown |->
        [name |-> "Slime Crown",
         tier |-> "IV",
         stats |-> [health |-> 200, shield |-> 50],
         special_effects |-> EmptyDict,
         level_req |-> 35],
      volcanic_axe |->
        [name |-> "Volcanic Axe",
         tier |-> "IV",
         stats |-> [atk_min |-> 280, atk_max |-> 280],
         special_effects |-> [burn_chance |-> DQ(5, 2)],
         set |-> "wolf_howl",
         level_req |-> 65],
      winter_spirit |->
        [name |-> "Winter Spirit",
         tier |-> "IV",
         stats |-> [atk_min |-> 200, atk_max |-> 200, health |-> 50],
         special_effects |-> [freeze_chance |-> DQ(2, 2)],
         level_req |-> 65],
      queenbee_crown |->
        [name |-> "Queen Bee's Crown",
         tier |-> "V",
         stats |-> [atk_min |-> 800, atk_max |-> 888, crit_chance |-> 20, crit_damage |-> 80],
         special_effects |-> [bleed_chance |-> DQ(26, 2)],
         set |-> "queen_bee",
         level_req |-> 150],
      volatile_gem |->
        [name |-> "Volatile Gem",
         tier |-> "V",
         stats |-> [magic |-> 315],
         special_effects |-> [burn_chance |-> DQ(11, 2), poison_chance |-> DQ(11, 2), dot_bonus |-> DQ(2, 1)],
         set |-> "flame",
         level_req |-> 150],
      mana_crystal |->
        [name |-> "Mana Crystal",
         tier |-> "II",
         stats |-> [magic |-> 25],
         special_effects |-> EmptyDict,
         level_req |-> 5],
      aqua_lapis |->
        [name |-> "Aqua Lapis",
         tier |-> "III",
         stats |-> [magic |-> 70],
         special_effects |-> EmptyDict,
         level_req |-> 30] ]

EquipmentDbSource == [keys |-> EquipmentDbSourceKeys, items |-> EquipmentDbSourceItems]

\* ------------------------------------------------------------------------
\* State.

VARIABLES
    WEAPON_DB,      \* the weapon table, [keys, items]
    EQUIPMENT_DB,   \* the equipment table, [keys, items]
    data,           \* the config of the last /calculate request
    result,         \* the report calculate_damage returned for it
    locals,         \* the local variables of that call when it returned
    call,           \* the last step taken, and its argument
    memo,           \* an earlier /calculate call: its config and its report
    opt,            \* the /optimize or /optimize_advanced request in progress
    three_hit,      \* the last calculate_three_hit_damage call: arguments, result
    advice          \* the last /optimize_stats request: body and response

vars == <<WEAPON_DB, EQUIPMENT_DB, data, result, locals, call, memo, opt,
          three_hit, advice>>

\* A lookup that answers a key the table does not hold with the table's
\* first entry.
DbGetFirst(db, k) == Get(db.items, k, db.items[db.keys[1]])

\* db.get(k, {})
DbGet(db, k) == Get(db.items, k, EmptyDict)

\* None: an absent request body, a variable not yet assigned.
None == [none |-> TRUE]

\* A JSON value of a number field: a number, text (the sequence of its
\* characters), or null.
JNum(d) == [t |-> "num", n |-> d, s |-> <<>>]
JStr(s) == [t |-> "str", n |-> DZero, s |-> s]
JNull == [t |-> "null", n |-> DZero, s |-> <<>>]

\* The decimal digits of a text.
DigitChars == <<"0", "1", "2", "3", "4", "5", "6", "7", "8", "9">>

IsDigits(cs) == \A i \in 1..Len(cs) : \E k \in 1..10 : DigitChars[k] = cs[i]

DigitOf(c) == (CHOOSE k \in 1..10 : DigitChars[k] = c) - 1

RECURSIVE NatOfDigits(_, _)
NatOfDigits(cs, acc) ==
    IF cs = <<>> THEN acc
    ELSE NatOfDigits(Tail(cs), acc * 10 + DigitOf(Head(cs)))

\* A text without its sign, and the sign.
Unsigned(cs) ==
    IF cs # <<>> /\ Head(cs) \in {"-", "+"} THEN Tail(cs) ELSE cs

SignOf(cs) == IF cs # <<>> /\ Head(cs) = "-" THEN -1 ELSE 1

Signed(sign, d) == IF sign = -1 THEN DNeg(d) ELSE d

\* The position of the first "." of a text, or 0.
RECURSIVE PointAt(_, _)
PointAt(cs, i) ==
    IF i > Len(cs) THEN 0
    ELSE IF cs[i] = "." THEN i
    ELSE PointAt(cs, i + 1)

\* int(text): an optional sign and one or more digits.
ParseInt(cs) ==
    LET body == Unsigned(cs)
    IN  IF body # <<>> /\ IsDigits(body)
        THEN [ok |-> TRUE, v |-> Signed(SignOf(cs), DInt(NatOfDigits(body, 0)))]
        ELSE [ok |-> FALSE, v |-> DZero]

\* float(text): an optional sign, digits, and an optional "." with digits,
\* one digit at least.  (Texts with an exponent, "inf" and "nan" are not
\* among the texts of the requests.)
ParseFloat(cs) ==
    LET body == Unsigned(cs)
        at == PointAt(body, 1)
        whole == IF at = 0 THEN body ELSE SubSeq(body, 1, at - 1)
        frac == IF at = 0 THEN <<>> ELSE SubSeq(body, at + 1, Len(body))
    IN  IF IsDigits(whole) /\ IsDigits(frac) /\ Len(whole) + Len(frac) >= 1
        THEN [ok |-> TRUE,
              v |-> Signed(SignOf(cs),
                           DQ(NatOfDigits(whole \o frac, 0), Len(frac)))]
        ELSE [ok |-> FALSE, v |-> DZero]

\* float(v) that takes whatever is no number for 0.
float_or_zero(j) == IF j.t = "num" THEN [ok |-> TRUE, v |-> j.n]
                    ELSE [ok |-> TRUE, v |-> DZero]

\* int(v) and float(v): [ok, v]; text that is no number raises ValueError,
\* null raises TypeError.
PyInt(j) == IF j.t = "num" THEN [ok |-> TRUE, v |-> DTrunc(j.n)]
            ELSE IF j.t = "str" THEN ParseInt(j.s)
            ELSE [ok |-> FALSE, v |-> DZero]

PyFloat(j) == IF j.t = "num" THEN [ok |-> TRUE, v |-> j.n]
              ELSE IF j.t = "str" THEN ParseFloat(j.s)
              ELSE [ok |-> FALSE, v |-> DZero]

\* A JSON list is a sequence; any other JSON value v of a list field is held
\* as the function 0 :> v, which no sequence is.
Scalar(v) == [k \in {0} |-> v]

IsList(v) == 0 \notin DOMAIN v

\* x or y on numbers.
Or(x, y) == IF x.m = <<>> THEN y ELSE x

\* ------------------------------------------------------------------------
\* class DamageCalculator

STR_DMG_MIN == DQ(296, 2)
STR_DMG_MAX == DQ(645, 2)
INT_MAGIC == DQ(60, 1)
VIT_HP == DInt(35)
DEF_SHIELD == DInt(17)
DEX_CRIT == DQ(8, 1)
BASE_CRIT_RATE == DQ(10, 1)
BASE_CRIT_DAMAGE == DInt(100)
BASE_MIN_ATK == DInt(8)
BASE_MAX_ATK == DInt(15)
BASE_MAGIC == DInt(10)

calculate_max_points(level) == level * 2

calculate_equipment_bonus(equipment_data) ==
    LET stats == Get(equipment_data, "stats", EmptyDict)
        ranged == Has(stats, "atk_min") /\ Has(stats, "atk_max")
        middle_value == DHalf(DInt(stats.atk_min + stats.atk_max))
        Direct(k) == IF Has(stats, k) THEN DInt(stats[k]) ELSE DZero
    IN  [atk_min     |-> IF ranged THEN DMul(middle_value, DQ(85, 2)) ELSE DZero,
         atk_max     |-> IF ranged THEN DMul(middle_value, DQ(125, 2)) ELSE DZero,
         magic       |-> Direct("magic"),
         crit_chance |-> Direct("crit_chance"),
         crit_damage |-> Direct("crit_damage"),
         health      |-> Direct("health"),
         shield      |-> Direct("shield")]

calculate_stats_from_points(strength, vitality, intelligence, dexterity, defense, level) ==
    LET effective_dex_crit == DMul(DMin(dexterity, DInt(50)), DEX_CRIT)
    IN  [min_damage   |-> DAdd(DMul(strength, STR_DMG_MIN), BASE_MIN_ATK),
         max_damage   |-> DAdd(DMul(strength, STR_DMG_MAX), BASE_MAX_ATK),
         health       |-> DMul(vitality, VIT_HP),
         magic_damage |-> DAdd(DMul(intelligence, INT_MAGIC), BASE_MAGIC),
         crit_chance  |-> DAdd(BASE_CRIT_RATE, effective_dex_crit),
         crit_damage  |-> BASE_CRIT_DAMAGE,
         shield       |-> DMul(defense, DEF_SHIELD)]

\* Three hits with no weapon mechanic.
three_hit_without_mechanics(base_damage, dot_damage, weapon_type, crit_multiplied_damage) ==
    [hit_1 |-> DAdd(crit_multiplied_damage, dot_damage),
     hit_2 |-> DAdd(crit_multiplied_damage, dot_damage),
     hit_3 |-> DAdd(crit_multiplied_damage, dot_damage),
     bonus_damage |-> DZero,
     total_damage |-> DMul(DAdd(crit_multiplied_damage, dot_damage), DInt(3)),
     mechanic |-> "Default: 100% damage per hit"]

\* The staff's bonus reported but left out of the total.
three_hit_bonus_left_out(base_damage, dot_damage, weapon_type, crit_multiplied_damage) ==
    [three_hit_without_mechanics(base_damage, dot_damage, weapon_type,
                                 crit_multiplied_damage)
     EXCEPT !.bonus_damage = IF weapon_type = "staff"
                             THEN DMul(crit_multiplied_damage, DInt(3))
                             ELSE DZero]

calculate_three_hit_damage(base_damage, dot_damage, weapon_type, crit_multiplied_damage) ==
    LET base_damage_per_hit == crit_multiplied_damage
        dot_damage_per_hit == dot_damage
        plain == DAdd(base_damage_per_hit, dot_damage_per_hit)
    IN  IF weapon_type = "staff" THEN
            LET three_hits_damage == DMul(plain, DInt(3))
                bonus_damage == DMul(base_damage_per_hit, DInt(3))
            IN  [hit_1 |-> plain, hit_2 |-> plain, hit_3 |-> plain,
                 bonus_damage |-> bonus_damage,
                 total_damage |-> DAdd(three_hits_damage, bonus_damage),
                 mechanic |-> "Flow: 100% per hit + 300% bonus after 3 hits"]
        ELSE IF weapon_type = "bow" THEN
            LET hit == DAdd(DMul(base_damage_per_hit, DInt(2)), dot_damage_per_hit)
            IN  [hit_1 |-> hit, hit_2 |-> hit, hit_3 |-> hit,
                 bonus_damage |-> DZero,
                 total_damage |-> DMul(hit, DInt(3)),
                 mechanic |-> "Brust: 200% damage per hit"]
        ELSE IF weapon_type \in {"sword", "blade"} THEN
            LET hit_multipliers == <<1, 3, 6>>
                hits_damage == [i \in 1..3 |->
                    DAdd(DMul(base_damage_per_hit, DInt(hit_multipliers[i])),
                         dot_damage_per_hit)]
            IN  [hit_1 |-> hits_damage[1], hit_2 |-> hits_damage[2],
                 hit_3 |-> hits_damage[3],
                 bonus_damage |-> DZero,
                 total_damage |-> DAdd(DAdd(hits_damage[1], hits_damage[2]),
                                       hits_damage[3]),
                 mechanic |-> "Chain: 1x, 3x, 6x combo damage"]
        ELSE IF weapon_type = "scythe" THEN
            LET expected_damage_per_hit ==
                    DAdd(DAdd(DMul(DMul(base_damage_per_hit, DInt(4)), DQ(25, 2)),
                              DMul(base_damage_per_hit, DQ(75, 2))),
                         dot_damage_per_hit)
            IN  [hit_1 |-> expected_damage_per_hit, hit_2 |-> expected_damage_per_hit,
                 hit_3 |-> expected_damage_per_hit,
                 bonus_damage |-> DZero,
                 total_damage |-> DMul(expected_damage_per_hit, DInt(3)),
                 mechanic |-> "Reverberation: 25% chance for 400% damage"]
        ELSE
            [hit_1 |-> plain, hit_2 |-> plain, hit_3 |-> plain,
             bonus_damage |-> DZero,
             total_damage |-> DMul(plain, DInt(3)),
             mechanic |-> "Default: 100% damage per hit"]

\* ------------------------------------------------------------------------
\* DamageCalculator.calculate_damage, phase by phase.  The local variables
\* are one record L, handed from each phase to the next; a phase returns L
\* with the variables it assigns.  ok = FALSE stands for an exception raised
\* inside the try block.

\* Damage type from the weapon.
damage_type_of(selected_weapon) ==
    IF selected_weapon # ""
    THEN LET weapon_data == DbGet(WEAPON_DB, selected_weapon)
         IN  IF Has(weapon_data, "type") /\ weapon_data.type = "staff"
             THEN "magic" ELSE "attack"
    ELSE "attack"

\* The request's fields read with data.get, and the damage type.
read_request(d) ==
    [ok |-> d # None,
     use_point_system  |-> Get(d, "usePointSystem", FALSE),
     selected_weapon   |-> Get(d, "selectedWeapon", ""),
     player_level      |-> Get(d, "playerLevel", 190),
     damage_type       |-> damage_type_of(Get(d, "selectedWeapon", "")),
     has_magic_potion  |-> Get(d, "magicPotion", FALSE),
     has_attack_potion |-> Get(d, "attackPotion", FALSE),
     has_golden_apple  |-> Get(d, "goldenApple", FALSE),
     equipment         |-> Get(d, "equipment", <<>>)]

\* The base values once the five inputs are parsed ([ok, v] each).
from_points(strength, vitality, intelligence, dexterity, defense, base_stats) ==
    [ok |-> strength.ok /\ vitality.ok /\ intelligence.ok
            /\ dexterity.ok /\ defense.ok,
     min_damage       |-> base_stats.min_damage,
     max_damage       |-> base_stats.max_damage,
     magic_damage     |-> base_stats.magic_damage,
     base_crit_rate   |-> base_stats.crit_chance,
     base_crit_damage |-> base_stats.crit_damage,
     vitality |-> vitality.v, defense |-> defense.v]

parsed_points(strength, vitality, intelligence, dexterity, defense, level) ==
    from_points(strength, vitality, intelligence, dexterity, defense,
                calculate_stats_from_points(strength.v, vitality.v, intelligence.v,
                                            dexterity.v, defense.v, level))

\* Manual input with the fallback on all five values: a crit rate or crit
\* damage of zero gives way to the default too.
from_manual_all_or(min_damage, max_damage, magic_damage, crit_rate, crit_damage) ==
    [ok |-> min_damage.ok /\ max_damage.ok /\ magic_damage.ok
            /\ crit_rate.ok /\ crit_damage.ok,
     min_damage       |-> Or(min_damage.v, BASE_MIN_ATK),
     max_damage       |-> Or(max_damage.v, BASE_MAX_ATK),
     magic_damage     |-> Or(magic_damage.v, BASE_MAGIC),
     base_crit_rate   |-> Or(crit_rate.v, BASE_CRIT_RATE),
     base_crit_damage |-> Or(crit_damage.v, BASE_CRIT_DAMAGE),
     vitality |-> DZero, defense |-> DZero]

from_manual(min_damage, max_damage, magic_damage, crit_rate, crit_damage) ==
    [ok |-> min_damage.ok /\ max_damage.ok /\ magic_damage.ok
            /\ crit_rate.ok /\ crit_damage.ok,
     min_damage       |-> Or(min_damage.v, BASE_MIN_ATK),
     max_damage       |-> Or(max_damage.v, BASE_MAX_ATK),
     magic_damage     |-> Or(magic_damage.v, BASE_MAGIC),
     base_crit_rate   |-> crit_rate.v,
     base_crit_damage |-> crit_damage.v,
     vitality |-> DZero, defense |-> DZero]

\* Base values read with data[...]: a field the body does not hold raises
\* KeyError.
base_values_required(d, use_point_system, player_level) ==
    LET fields == IF use_point_system
                  THEN {"strength", "vitality", "intelligence", "dexterity", "defense"}
                  ELSE {"minDamage", "maxDamage", "magicDamage", "critRate", "critDamage"}
        zero == [ok |-> TRUE, v |-> DZero]
        missing == [ok |-> FALSE, v |-> DZero]
    IN  IF fields \subseteq DOMAIN d
        THEN IF use_point_system
             THEN parsed_points(PyInt(d.strength), PyInt(d.vitality),
                                PyInt(d.intelligence), PyInt(d.dexterity),
                                PyInt(d.defense), player_level)
             ELSE from_manual(PyFloat(d.minDamage), PyFloat(d.maxDamage),
                              PyFloat(d.magicDamage), PyFloat(d.critRate),
                              PyFloat(d.critDamage))
        ELSE from_manual(missing, zero, zero, zero, zero)

\* Base values: from attribute points, or the manual input.
base_values(d, use_point_system, player_level) ==
    IF use_point_system THEN
        parsed_points(PyInt(Get(d, "strength", JNum(DZero))),
                      PyInt(Get(d, "vitality", JNum(DZero))),
                      PyInt(Get(d, "intelligence", JNum(DZero))),
                      PyInt(Get(d, "dexterity", JNum(DZero))),
                      PyInt(Get(d, "defense", JNum(DZero))),
                      player_level)
    ELSE
        from_manual(PyFloat(Get(d, "minDamage", JNum(DZero))),
                    PyFloat(Get(d, "maxDamage", JNum(DZero))),
                    PyFloat(Get(d, "magicDamage", JNum(DZero))),
                    PyFloat(Get(d, "critRate", JNum(BASE_CRIT_RATE))),
                    PyFloat(Get(d, "critDamage", JNum(BASE_CRIT_DAMAGE))))

\* set_counts as a dictionary that outlives the call: it starts from the
\* tallies the previous report holds, not from zero.
set_counts_carried ==
    IF Has(result, "set_counts") THEN result.set_counts
    ELSE [flame |-> 0, wolf_howl |-> 0, crimson |-> 0, queen_bee |-> 0,
          explorer |-> 0, forest_dweller |-> 0, library_ruina |-> 0, blessing |-> 0]

set_counts_init ==
    [flame |-> 0, wolf_howl |-> 0, crimson |-> 0, queen_bee |-> 0,
     explorer |-> 0, forest_dweller |-> 0, library_ruina |-> 0, blessing |-> 0]

\* L with the base values; crit_rate and crit_damage are the running totals
\* the weapon and the equipment add to.
with_base(L, b) ==
    [ok |-> L.ok /\ b.ok,
     crit_rate |-> b.base_crit_rate, crit_damage |-> b.base_crit_damage,
     set_counts |-> set_counts_init] @@ b @@ L

\* One piece whose crit damage replaces the running total instead of adding
\* to it: the last piece with crit damage decides.
add_bonus_crit_damage_assigned(L, item_data, bonus) ==
    LET in_set == Has(item_data, "set") /\ item_data.set # ""
        known  == in_set /\ item_data.set \in DOMAIN L.set_counts
    IN  [L EXCEPT !.ok = @ /\ (in_set => known),
                  !.min_damage   = DAdd(@, bonus.atk_min),
                  !.max_damage   = DAdd(@, bonus.atk_max),
                  !.magic_damage = DAdd(@, bonus.magic),
                  !.crit_rate    = DAdd(@, bonus.crit_chance),
                  !.crit_damage  = IF bonus.crit_damage = DZero THEN @
                                   ELSE bonus.crit_damage,
                  !.set_counts   = IF known THEN [@ EXCEPT ![item_data.set] = @ + 1]
                                   ELSE @]

\* One piece (the weapon, or one equipment entry) added to the running
\* totals: its bonuses, and its set counted.  A set name that set_counts
\* does not hold raises KeyError.
add_bonus(L, item_data, bonus) ==
    LET in_set == Has(item_data, "set") /\ item_data.set # ""
        known  == in_set /\ item_data.set \in DOMAIN L.set_counts
    IN  [L EXCEPT !.ok = @ /\ (in_set => known),
                  !.min_damage   = DAdd(@, bonus.atk_min),
                  !.max_damage   = DAdd(@, bonus.atk_max),
                  !.magic_damage = DAdd(@, bonus.magic),
                  !.crit_rate    = DAdd(@, bonus.crit_chance),
                  !.crit_damage  = DAdd(@, bonus.crit_damage),
                  !.set_counts   = IF known THEN [@ EXCEPT ![item_data.set] = @ + 1]
                                   ELSE @]

add_piece(L, item_data) ==
    add_bonus(L, item_data, calculate_equipment_bonus(item_data))

\* base_crit_rate and base_crit_damage as they stand after the weapon.
weapon_done(L) ==
    [L EXCEPT !.base_crit_rate = L.crit_rate, !.base_crit_damage = L.crit_damage]

\* Weapon stats without the weapon's set piece.
apply_weapon_set_uncounted(L) ==
    IF L.selected_weapon # ""
    THEN weapon_done(add_bonus(L, EmptyDict,
             calculate_equipment_bonus(DbGet(WEAPON_DB, L.selected_weapon))))
    ELSE L

\* Weapon stats, and the weapon's set piece.
apply_weapon(L) ==
    IF L.selected_weapon # ""
    THEN weapon_done(add_piece(L, DbGet(WEAPON_DB, L.selected_weapon)))
    ELSE L

\* for eq in equipment: equipment stats and set pieces.  A value that is no
\* list raises TypeError.
RECURSIVE add_equipment(_, _)
add_equipment(L, equipment) ==
    IF ~IsList(equipment) THEN [L EXCEPT !.ok = FALSE]
    ELSE IF equipment = <<>> THEN L
    ELSE add_equipment(add_piece(L, DbGet(EQUIPMENT_DB, Head(equipment))),
                       Tail(equipment))

\* The totals after the loop, and the average physical damage.
equipment_done(L) ==
    [total_crit_rate |-> L.crit_rate, total_crit_damage |-> L.crit_damage,
     avg_physical_damage |-> DHalf(DAdd(L.min_damage, L.max_damage))] @@ L

apply_equipment(L) == equipment_done(add_equipment(L, L.equipment))

\* Potions that do not compound: the golden apple counts only without the
\* attack potion.
potion_values_not_stacking(L) ==
    LET a == IF L.has_attack_potion THEN DQ(175, 2)
             ELSE IF L.has_golden_apple THEN DQ(15, 1) ELSE DInt(1)
        m == IF L.has_magic_potion THEN DQ(175, 2) ELSE DInt(1)
    IN  [effective_min_damage          |-> DMul(L.min_damage, a),
         effective_max_damage          |-> DMul(L.max_damage, a),
         effective_avg_physical_damage |-> DMul(L.avg_physical_damage, a),
         effective_magic_damage        |-> DMul(L.magic_damage, m)]

\* Potion effects on the totals after equipment.
potion_values(L) ==
    LET a == IF L.has_attack_potion THEN DQ(175, 2) ELSE DInt(1)
        g == IF L.has_golden_apple THEN DQ(15, 1) ELSE DInt(1)
        m == IF L.has_magic_potion THEN DQ(175, 2) ELSE DInt(1)
    IN  [effective_min_damage          |-> DMul(DMul(L.min_damage, a), g),
         effective_max_damage          |-> DMul(DMul(L.max_damage, a), g),
         effective_avg_physical_damage |-> DMul(DMul(L.avg_physical_damage, a), g),
         effective_magic_damage        |-> DMul(L.magic_damage, m)]

\* after_potions keeps the four values as the potions leave them.
potions_done(L, p) == [after_potions |-> p] @@ p @@ L

apply_potions(L) == potions_done(L, potion_values(L))

\* A threshold of one piece.
set_active_from_one(set_counts, name) == set_counts[name] >= 1

\* The 2-piece threshold of every set bonus.
set_active(set_counts, name) == set_counts[name] >= 2

\* Set bonuses of wolf_howl, crimson, forest_dweller and explorer.
apply_set_bonuses(L) ==
    LET wolf     == set_active(L.set_counts, "wolf_howl")
        crimson  == set_active(L.set_counts, "crimson")
        forest   == set_active(L.set_counts, "forest_dweller")
                    /\ L.damage_type = "attack"
        explorer == set_active(L.set_counts, "explorer")
    IN  [set_bonus_applied |-> [wolf_howl |-> wolf, crimson |-> crimson,
                                forest_dweller |-> forest, explorer |-> explorer,
                                flame |-> FALSE]]
        @@ [L EXCEPT
              !.total_crit_rate = IF wolf THEN DAdd(@, DInt(12)) ELSE @,
              !.effective_magic_damage = IF crimson THEN DMul(@, DQ(118, 2)) ELSE @,
              !.effective_min_damage = IF forest THEN DMul(@, DQ(118, 2)) ELSE @,
              !.effective_max_damage = IF forest THEN DMul(@, DQ(118, 2)) ELSE @,
              !.effective_avg_physical_damage =
                  IF forest THEN DMul(@, DQ(118, 2)) ELSE @]

\* total_crit_rate / 100 without the cap.
crit_rate_uncapped(total_crit_rate) == DPercent(total_crit_rate)

\* crit_rate = min(total_crit_rate / 100, 1.0)
crit_rate_of(total_crit_rate) == DMin(DPercent(total_crit_rate), DInt(1))

\* crit_damage_multiplier = 1 + (total_crit_damage / 100)
crit_damage_multiplier_of(total_crit_damage) ==
    DAdd(DInt(1), DPercent(total_crit_damage))

expected_sum(c, expected_non_crit_damage, expected_crit_damage) ==
    [expected_non_crit_damage |-> expected_non_crit_damage,
     expected_crit_damage |-> expected_crit_damage,
     total_damage |-> DAdd(expected_non_crit_damage, expected_crit_damage)] @@ c

\* Expected damage with crit, from the two pools, the rate and the multiplier.
expected_damage(c) ==
    expected_sum(c,
        DMul(c.base_damage, DSub(DInt(1), c.crit_rate)),
        DMul(DMul(c.crit_base_damage, c.crit_damage_multiplier), c.crit_rate))

\* Base damage by damage type, and the crit split.
crit_resolution(L) ==
    expected_damage(
        [base_damage |-> IF L.damage_type = "magic" THEN L.effective_magic_damage
                         ELSE L.effective_avg_physical_damage,
         crit_base_damage |-> IF L.damage_type = "magic"
                              THEN L.effective_magic_damage
                              ELSE L.effective_max_damage,
         crit_rate |-> crit_rate_of(L.total_crit_rate),
         crit_damage_multiplier |-> crit_damage_multiplier_of(L.total_crit_damage)])

apply_crit(L) == [crit |-> crit_resolution(L)] @@ L

In(item, equipment) == \E i \in 1..Len(equipment) : equipment[i] = item

\* Cursed Spellbook and Dual Sword.
dual_sword_multiplier == DAdd(DInt(1), DMul(DQ(15, 2), DInt(2 - 1)))

dual_sword_effect(total_damage, equipment) ==
    IF In("dual_sword", equipment) THEN DMul(total_damage, dual_sword_multiplier)
    ELSE total_damage

equipment_multipliers(total_damage, equipment) ==
    dual_sword_effect(IF In("cursed_spellbook", equipment)
                      THEN DMul(total_damage, DQ(13, 1)) ELSE total_damage,
                      equipment)

apply_multipliers(L) ==
    [total_damage |-> equipment_multipliers(L.crit.total_damage, L.equipment)] @@ L

\* for item in equipment: burn and poison chance of the flame items.
RECURSIVE flame_chances(_, _)
flame_chances(acc, equipment) ==
    IF equipment = <<>> THEN acc
    ELSE LET item == Head(equipment)
             special_effects ==
                 Get(DbGet(EQUIPMENT_DB, item), "special_effects", EmptyDict)
         IN  flame_chances(
                 IF item = "daybreak" THEN
                     [acc EXCEPT !.burn_chance =
                         DAdd(@, Get(special_effects, "burn_chance", DQ(52, 2)))]
                 ELSE IF item = "evernight" THEN
                     [acc EXCEPT !.burn_chance =
                         DAdd(@, Get(special_effects, "burn_chance", DQ(40, 2)))]
                 ELSE IF item = "volatile_gem" THEN
                     [acc EXCEPT !.burn_chance =
                         DAdd(@, Get(special_effects, "burn_chance", DQ(11, 2))),
                                 !.poison_chance =
                         DAdd(@, Get(special_effects, "poison_chance", DQ(11, 2))),
                                 !.has_volatile_gem = TRUE]
                 ELSE acc,
                 Tail(equipment))

\* The flame set bonus on the burn chance, and the bleed chance.
dot_chances(fc, set_counts, equipment) ==
    [flame_set_count |-> set_counts["flame"],
     flame |-> set_active(set_counts, "flame"),
     has_volatile_gem |-> fc.has_volatile_gem,
     burn_chance |-> IF set_active(set_counts, "flame")
                     THEN DAdd(fc.burn_chance, DQ(10, 2)) ELSE fc.burn_chance,
     bleed_chance |->
         IF In("queenbee_crown", equipment)
         THEN Get(Get(DbGet(EQUIPMENT_DB, "queenbee_crown"),
                      "special_effects", EmptyDict),
                  "bleed_chance", DQ(26, 2))
         ELSE DZero,
     poison_chance |-> fc.poison_chance]

\* The damage of each pool, from the effective values as they stand.
dot_pools(ch, L) ==
    [burn_damage |->
         IF DLt(DZero, ch.burn_chance)
         THEN IF ch.has_volatile_gem
              THEN DAdd(DMul(DMul(L.effective_magic_damage, DQ(33, 2)), DInt(5)),
                        DMul(L.effective_magic_damage, DQ(20, 2)))
              ELSE DMul(DMul(L.effective_magic_damage, DQ(33, 2)), DInt(5))
         ELSE DZero,
     bleeding_damage |->
         IF DLt(DZero, ch.bleed_chance)
         THEN DMul(DMul(L.effective_avg_physical_damage, DQ(25, 2)), DInt(5))
         ELSE DZero,
     poison_damage |->
         IF DLt(DZero, ch.poison_chance)
         THEN DAdd(DMul(DMul(L.effective_magic_damage, DQ(40, 2)), DInt(5)),
                   DMul(L.effective_magic_damage, DQ(20, 2)))
         ELSE DZero,
     blood_damage |->
         IF In("blood_butcher", L.equipment)
         THEN DMul(DMul(L.effective_min_damage, DQ(5, 2)), DInt(9))
         ELSE DZero] @@ ch

\* The pools taken off instead of added.
dot_sum_subtracted(pools) ==
    [dot_damage |->
        DNeg(DAdd(DAdd(DAdd(DMul(pools.burn_damage, DMin(pools.burn_chance, DInt(1))),
                            DMul(pools.bleeding_damage,
                                 DMin(pools.bleed_chance, DInt(1)))),
                       DMul(pools.poison_damage, DMin(pools.poison_chance, DInt(1)))),
                  pools.blood_damage))] @@ pools

\* dot_damage: each pool scaled by min(chance, 1), blood butcher added whole.
dot_sum(pools) ==
    [dot_damage |->
        DAdd(DAdd(DAdd(DMul(pools.burn_damage, DMin(pools.burn_chance, DInt(1))),
                       DMul(pools.bleeding_damage, DMin(pools.bleed_chance, DInt(1)))),
                  DMul(pools.poison_damage, DMin(pools.poison_chance, DInt(1)))),
             pools.blood_damage)] @@ pools

\* DoT damage.
dot_calculation(L) ==
    dot_sum(dot_pools(
        dot_chances(flame_chances([burn_chance |-> DZero, poison_chance |-> DZero,
                                   has_volatile_gem |-> FALSE], L.equipment),
                    L.set_counts, L.equipment),
        L))

dot_done(L, dot) ==
    [dot |-> dot,
     set_bonus_applied |-> [L.set_bonus_applied EXCEPT !.flame = dot.flame]] @@ L

\* DoT damage that crits: the sum of the pools times the crit damage
\* multiplier.
apply_dot_with_crit(L) ==
    dot_done(L, [dot_calculation(L) EXCEPT
                    !.dot_damage = DMul(@, L.crit.crit_damage_multiplier)])

apply_dot(L) == dot_done(L, dot_calculation(L))

\* No weapon type at all without a weapon the table holds.
weapon_type_or_none(selected_weapon) ==
    IF selected_weapon # ""
    THEN Get(DbGet(WEAPON_DB, selected_weapon), "type", "")
    ELSE ""

\* weapon_type handed to calculate_three_hit_damage.
weapon_type_of(selected_weapon) ==
    IF selected_weapon # ""
    THEN Get(DbGet(WEAPON_DB, selected_weapon), "type", "sword")
    ELSE "sword"

\* Final damage and the three-hit data.
finish(L) ==
    [final_damage |-> DAdd(L.total_damage, L.dot.dot_damage),
     weapon_type |-> weapon_type_of(L.selected_weapon),
     three_hit_data |-> calculate_three_hit_damage(
                            L.crit.base_damage, L.dot.dot_damage,
                            weapon_type_of(L.selected_weapon), L.total_damage)] @@ L

start(d, L) == with_base(L, base_values(d, L.use_point_system, L.player_level))

\* The statements after the equipment loop; the TypeError the loop raises
\* on a value that is no list ends the call there.
after_equipment(L) ==
    IF IsList(L.equipment)
    THEN finish(apply_dot(apply_multipliers(apply_crit(apply_set_bonuses(
             apply_potions(L))))))
    ELSE L

\* The locals of calculate_damage at its end, unrounded.
calculate_locals(d) ==
    after_equipment(apply_equipment(apply_weapon(start(d, read_request(d)))))

\* The result dictionary built from the locals.
report_of(v) ==
    LET calculation_details ==
            [base_stats |-> [min_damage |-> v.min_damage,
                             max_damage |-> v.max_damage,
                             magic_damage |-> v.magic_damage,
                             base_crit_rate |-> v.base_crit_rate,
                             base_crit_damage |-> v.base_crit_damage],
             after_equipment |-> [min_damage |-> v.min_damage,
                                  max_damage |-> v.max_damage,
                                  magic_damage |-> v.magic_damage,
                                  total_crit_rate |-> v.total_crit_rate,
                                  total_crit_damage |-> v.total_crit_damage],
             after_potions |-> [effective_min_damage |-> v.effective_min_damage,
                                effective_max_damage |-> v.effective_max_damage,
                                effective_magic_damage |-> v.effective_magic_damage],
             set_bonuses |-> v.set_bonus_applied,
             crit_calculation |->
                 [crit_rate_percent |-> DMul(v.crit.crit_rate, DInt(100)),
                  crit_damage_multiplier |-> v.crit.crit_damage_multiplier,
                  crit_base_damage |-> v.crit.crit_base_damage,
                  expected_non_crit_damage |-> v.crit.expected_non_crit_damage,
                  expected_crit_damage |-> v.crit.expected_crit_damage],
             dot_calculation |-> [burn_chance |-> v.dot.burn_chance,
                                  bleed_chance |-> v.dot.bleed_chance,
                                  poison_chance |-> v.dot.poison_chance,
                                  burn_damage |-> v.dot.burn_damage,
                                  bleeding_damage |-> v.dot.bleeding_damage,
                                  poison_damage |-> v.dot.poison_damage]]
        explorer_hp_bonus == IF v.set_counts["explorer"] >= 2 THEN DInt(200) ELSE DZero
        player_stats ==
            IF v.use_point_system
            THEN [player_stats |->
                 [health |-> DAdd(DMul(v.vitality, VIT_HP), explorer_hp_bonus),
                  shield |-> DMul(v.defense, DEF_SHIELD),
                  total_hp |-> DAdd(DAdd(DMul(v.vitality, VIT_HP),
                                         DMul(v.defense, DEF_SHIELD)),
                                    explorer_hp_bonus),
                  min_damage |-> v.min_damage,
                  max_damage |-> v.max_damage,
                  magic_damage |-> v.magic_damage,
                  crit_rate |-> v.total_crit_rate,
                  crit_damage |-> v.total_crit_damage]]
            ELSE EmptyDict
    IN  [success |-> TRUE,
         min_damage |-> DRound(v.min_damage, 2),
         max_damage |-> DRound(v.max_damage, 2),
         magic_damage |-> DRound(v.magic_damage, 2),
         avg_physical_damage |-> DRound(v.avg_physical_damage, 2),
         effective_min_damage |-> DRound(v.effective_min_damage, 2),
         effective_max_damage |-> DRound(v.effective_max_damage, 2),
         effective_avg_physical_damage |-> DRound(v.effective_avg_physical_damage, 2),
         effective_magic_damage |-> DRound(v.effective_magic_damage, 2),
         base_damage |-> DRound(v.crit.base_damage, 2),
         crit_multiplied_damage |-> DRound(v.total_damage, 2),
         dot_damage |-> DRound(v.dot.dot_damage, 2),
         final_damage |-> DRound(v.final_damage, 2),
         effective_multiplier |-> IF DLt(DZero, v.crit.base_damage)
                                  THEN DDivRound(v.final_damage, v.crit.base_damage, 2)
                                  ELSE DZero,
         crit_rate |-> DRound(v.total_crit_rate, 1),
         crit_damage |-> DRound(v.total_crit_damage, 1),
         burn_chance |-> DRound(DMul(v.dot.burn_chance, DInt(100)), 1),
         bleed_chance |-> DRound(DMul(v.dot.bleed_chance, DInt(100)), 1),
         poison_chance |-> DRound(DMul(v.dot.poison_chance, DInt(100)), 1),
         flame_set_count |-> v.dot.flame_set_count,
         damage_type |-> v.damage_type,
         set_counts |-> v.set_counts,
         set_bonuses_applied |-> v.set_bonus_applied,
         potion_effects |-> [magic_potion |-> v.has_magic_potion,
                             attack_potion |-> v.has_attack_potion,
                             golden_apple |-> v.has_golden_apple],
         calculated_stats |-> v.use_point_system,
         three_hit_damage |->
             [hit_1 |-> DRound(v.three_hit_data.hit_1, 2),
              hit_2 |-> DRound(v.three_hit_data.hit_2, 2),
              hit_3 |-> DRound(v.three_hit_data.hit_3, 2),
              bonus_damage |-> DRound(v.three_hit_data.bonus_damage, 2),
              total_damage |-> DRound(v.three_hit_data.total_damage, 2),
              mechanic |-> v.three_hit_data.mechanic],
         calculation_details |-> calculation_details]
        @@ player_stats

\* DamageCalculator.calculate_damage(data): the report, or the failure the
\* except clause returns.
response_of(v) ==
    IF v.ok THEN report_of(v) ELSE [success |-> FALSE, error |-> "exception"]

calculate_damage(d) == response_of(calculate_locals(d))

\* ------------------------------------------------------------------------
\* Requests.

\* A /calculate body with every field present.
ManualConfig(min_damage, max_damage, magic_damage, crit_rate, crit_damage, weapon, equipment, potions) ==
    [usePointSystem |-> FALSE, selectedWeapon |-> weapon, playerLevel |-> 190,
     minDamage |-> JNum(min_damage), maxDamage |-> JNum(max_damage),
     magicDamage |-> JNum(magic_damage),
     critRate |-> JNum(crit_rate), critDamage |-> JNum(crit_damage),
     equipment |-> equipment,
     magicPotion |-> potions[1], attackPotion |-> potions[2],
     goldenApple |-> potions[3]]

PointConfig(strength, vitality, intelligence, dexterity, defense, weapon, equipment, potions) ==
    [usePointSystem |-> TRUE, selectedWeapon |-> weapon, playerLevel |-> 190,
     strength |-> JNum(strength), vitality |-> JNum(vitality),
     intelligence |-> JNum(intelligence), dexterity |-> JNum(dexterity),
     defense |-> JNum(defense),
     equipment |-> equipment,
     magicPotion |-> potions[1], attackPotion |-> potions[2],
     goldenApple |-> potions[3]]

\* ------------------------------------------------------------------------
\* The optimizer handlers.

max_equipment == 3
TopCount == 10

\* itertools.combinations_with_replacement(s, r).
RECURSIVE combinations_with_replacement(_, _)
combinations_with_replacement(s, r) ==
    IF r = 0 THEN << <<>> >>
    ELSE IF s = <<>> THEN <<>>
    ELSE LET with == combinations_with_replacement(s, r - 1)
         IN  [i \in 1..Len(with) |-> <<Head(s)>> \o with[i]]
             \o combinations_with_replacement(Tail(s), r)

\* itertools.combinations(s, r): the r-element subsequences of s, in
\* lexicographic order of their positions.
RECURSIVE combinations(_, _)
combinations(s, r) ==
    IF r = 0 THEN << <<>> >>
    ELSE IF Len(s) < r THEN <<>>
    ELSE LET with == combinations(Tail(s), r - 1)
         IN  [i \in 1..Len(with) |-> <<Head(s)>> \o with[i]]
             \o combinations(Tail(s), r)

\* base_config of optimize_damage and optimize_damage_advanced.
base_config_of(d, advanced) ==
    LET flags == [usePointSystem |-> Get(d, "usePointSystem", FALSE),
                  selectedWeapon |-> Get(d, "selectedWeapon", ""),
                  magicPotion    |-> Get(d, "magicPotion", FALSE),
                  attackPotion   |-> Get(d, "attackPotion", FALSE),
                  goldenApple    |-> Get(d, "goldenApple", FALSE)]
        level == IF advanced THEN [playerLevel |-> Get(d, "playerLevel", 190)]
                 ELSE EmptyDict
        stats == IF flags.usePointSystem
                 THEN [strength     |-> Get(d, "strength", JNum(DZero)),
                       vitality     |-> Get(d, "vitality", JNum(DZero)),
                       intelligence |-> Get(d, "intelligence", JNum(DZero)),
                       dexterity    |-> Get(d, "dexterity", JNum(DZero)),
                       defense      |-> Get(d, "defense", JNum(DZero))]
                 ELSE [minDamage   |-> Get(d, "minDamage", JNum(DZero)),
                       maxDamage   |-> Get(d, "maxDamage", JNum(DZero)),
                       magicDamage |-> Get(d, "magicDamage", JNum(DZero)),
                       critRate    |-> Get(d, "critRate", JNum(DInt(1))),
                       critDamage  |-> Get(d, "critDamage", JNum(DInt(100)))]
    IN  flags @@ level @@ stats

\* Every key of the table, whatever the player's level.
available_equipment_unfiltered(base_config, advanced) == EQUIPMENT_DB.keys

\* The equipment ids the combinations are drawn from: every key of the
\* table (optimize_damage), or those within the player's level
\* (optimize_damage_advanced).
available_equipment_of(base_config, advanced) ==
    IF advanced
    THEN SelectSeq(EQUIPMENT_DB.keys,
                   LAMBDA eq_id : Get(EQUIPMENT_DB.items[eq_id], "level_req", 0)
                                    <= base_config.playerLevel)
    ELSE EQUIPMENT_DB.keys

\* test_config = base_config without the copy: one dictionary under both
\* names.
candidate_configs_aliased(base_config, combo) ==
    [base_config |-> [equipment |-> combo] @@ base_config,
     test_config |-> [equipment |-> combo] @@ base_config]

\* test_config = base_config.copy(); test_config['equipment'] = list(combo):
\* both dictionaries after the two statements.
candidate_configs(base_config, combo) ==
    [base_config |-> base_config,
     test_config |-> [equipment |-> combo] @@ base_config]

\* The score of a report under optimizationType.
score_of(r, optimization_type) ==
    IF optimization_type = "final_damage" THEN r.final_damage
    ELSE IF optimization_type = "three_hit" THEN r.three_hit_damage.total_damage
    ELSE IF optimization_type = "first_hit" THEN r.three_hit_damage.hit_1
    ELSE IF optimization_type = "dot" THEN r.dot_damage
    ELSE r.final_damage

\* The entry appended to results for one successful candidate.
result_entry(combo, r, advanced, optimization_type) ==
    IF advanced
    THEN [equipment |-> combo,
          final_damage |-> r.final_damage,
          three_hit_total |-> r.three_hit_damage.total_damage,
          first_hit |-> r.three_hit_damage.hit_1,
          dot_damage |-> r.dot_damage,
          crit_rate |-> r.crit_rate,
          crit_damage |-> r.crit_damage,
          score |-> score_of(r, optimization_type)]
    ELSE [equipment |-> combo,
          final_damage |-> r.final_damage,
          three_hit_total |-> r.three_hit_damage.total_damage,
          crit_rate |-> r.crit_rate,
          crit_damage |-> r.crit_damage]

\* The sort key: score (advanced) or final_damage.
sort_key(entry, advanced) == IF advanced THEN entry.score ELSE entry.final_damage

\* results.sort(key=..., reverse=True): descending, entries with equal keys
\* keeping the order they were appended in.
RECURSIVE insert_desc(_, _, _)
insert_desc(sorted, entry, advanced) ==
    IF sorted = <<>> THEN <<entry>>
    ELSE IF DLt(sort_key(Head(sorted), advanced), sort_key(entry, advanced))
         THEN <<entry>> \o sorted
    ELSE <<Head(sorted)>> \o insert_desc(Tail(sorted), entry, advanced)

\* A descending sort that puts a later entry in front of the earlier entries
\* with the same key.
RECURSIVE insert_before_equal(_, _, _)
insert_before_equal(sorted, entry, advanced) ==
    IF sorted = <<>> THEN <<entry>>
    ELSE IF DLe(sort_key(Head(sorted), advanced), sort_key(entry, advanced))
         THEN <<entry>> \o sorted
    ELSE <<Head(sorted)>> \o insert_before_equal(Tail(sorted), entry, advanced)

RECURSIVE sort_desc_unstable(_, _)
sort_desc_unstable(results, advanced) ==
    IF results = <<>> THEN <<>>
    ELSE insert_before_equal(
             sort_desc_unstable(SubSeq(results, 1, Len(results) - 1), advanced),
             results[Len(results)], advanced)

\* The results left in the order they were appended in.
results_unsorted(results, advanced) == results

RECURSIVE sort_desc(_, _)
sort_desc(results, advanced) ==
    IF results = <<>> THEN <<>>
    ELSE insert_desc(sort_desc(SubSeq(results, 1, Len(results) - 1), advanced),
                     results[Len(results)], advanced)

\* results[:10]
top_combinations_of(sorted) ==
    SubSeq(sorted, 1, IF Len(sorted) < TopCount THEN Len(sorted) ELSE TopCount)

\* One formatted entry of the response.
formatted_entry(combo, advanced) ==
    LET common ==
            [equipment_ids |-> combo.equipment,
             equipment_names |-> [k \in 1..Len(combo.equipment) |->
                                     EQUIPMENT_DB.items[combo.equipment[k]].name],
             final_damage |-> DRound(combo.final_damage, 2),
             three_hit_total |-> DRound(combo.three_hit_total, 2),
             crit_rate |-> DRound(combo.crit_rate, 1),
             crit_damage |-> DRound(combo.crit_damage, 1)]
    IN  IF advanced
        THEN common @@ [first_hit |-> DRound(combo.first_hit, 2),
                        dot_damage |-> DRound(combo.dot_damage, 2),
                        score |-> DRound(combo.score, 2)]
        ELSE common

\* The JSON response, from the sorted and cut list.
response_with(o, top) ==
    [success |-> TRUE,
     top_combinations |->
         [k \in 1..Len(top) |-> formatted_entry(top[k], o.advanced)],
     total_combinations_tested |-> Len(o.all_combinations)]
    @@ (IF o.advanced
        THEN [optimization_type |-> o.optimization_type,
              available_equipment_count |-> Len(o.available_equipment)]
        ELSE EmptyDict)

optimize_response(o) ==
    response_with(o, top_combinations_of(sort_desc(o.results, o.advanced)))

\* ------------------------------------------------------------------------
\* optimize_stats

\* The shares of the remaining points for the main stat and for dexterity.
stat_split(player_level) ==
    IF player_level < 50 THEN [main |-> DQ(85, 2), dex |-> DQ(15, 2)]
    ELSE IF player_level < 100 THEN [main |-> DQ(75, 2), dex |-> DQ(25, 2)]
    ELSE [main |-> DQ(65, 2), dex |-> DQ(35, 2)]

\* The allocation before the unspent points are added.
stat_allocation(weapon_type, remaining_points, split) ==
    [strength |-> IF weapon_type = "magic" THEN DZero
                  ELSE DTrunc(DMul(remaining_points, split.main)),
     intelligence |-> IF weapon_type = "magic"
                      THEN DTrunc(DMul(remaining_points, split.main))
                      ELSE DZero,
     dexterity |-> DMin(DTrunc(DMul(remaining_points, split.dex)), DInt(50)),
     defense |-> DZero]

stat_sum(vitality, a) ==
    DAdd(DAdd(DAdd(DAdd(vitality, a.strength), a.intelligence), a.dexterity),
         a.defense)

\* The unspent points left unspent.
stat_top_up_skipped(a, weapon_type, remaining_after_optimization) == a

\* Add remaining points to main stat.
stat_top_up(a, weapon_type, remaining_after_optimization) ==
    IF DLt(DZero, remaining_after_optimization)
    THEN IF weapon_type = "magic"
         THEN [a EXCEPT !.intelligence = DAdd(@, remaining_after_optimization)]
         ELSE [a EXCEPT !.strength = DAdd(@, remaining_after_optimization)]
    ELSE a

stat_recommendation(a, vitality, total_points, weapon_type, player_level) ==
    [success |-> TRUE,
     recommendation |->
         [total_used |-> stat_sum(vitality, a),
          remaining |-> DSub(total_points, stat_sum(vitality, a)),
          weapon_type |-> weapon_type,
          reason |-> <<"Optimized for", weapon_type, "damage at level",
                       player_level>>] @@ a]

stat_distribution(a, vitality, total_points, weapon_type, player_level) ==
    stat_recommendation(
        stat_top_up(a, weapon_type, DSub(total_points, stat_sum(vitality, a))),
        vitality, total_points, weapon_type, player_level)

stat_response(player_level, total_points, vitality, weapon_type) ==
    IF ~vitality.ok THEN [success |-> FALSE, error |-> "exception"]
    ELSE IF DLe(DSub(total_points, vitality.v), DZero)
    THEN [success |-> TRUE,
          recommendation |-> [strength |-> DZero, intelligence |-> DZero,
                              dexterity |-> DZero, defense |-> DZero,
                              reason |-> <<"All points allocated to vitality">>]]
    ELSE stat_distribution(
             stat_allocation(weapon_type, DSub(total_points, vitality.v),
                             stat_split(player_level)),
             vitality.v, total_points, weapon_type, player_level)

\* POST /optimize_stats with body d.
optimize_stats(d) ==
    stat_response(
        Get(d, "playerLevel", 190),
        DInt(calculate_max_points(Get(d, "playerLevel", 190))),
        PyInt(Get(d, "vitality", JNum(DZero))),
        IF Get(d, "selectedWeapon", "") # ""
           /\ Get(DbGet(WEAPON_DB, Get(d, "selectedWeapon", "")), "type", "") = "staff"
        THEN "magic" ELSE "physical")

\* ------------------------------------------------------------------------
\* Steps.

OptIdle == [pc |-> "idle"]

\* The config after the call: its equipment entry is the list the local
\* variable equipment names.
config_after(cfg, v) ==
    IF Has(cfg, "equipment") THEN [cfg EXCEPT !.equipment = v.equipment] ELSE cfg

\* POST /calculate with body cfg: calculate_damage(cfg), which reads both
\* tables and writes neither, nor the config handed to it.  v holds the
\* locals of the call at its return.
Return(cfg, v) ==
    /\ data' = config_after(cfg, v)
    /\ result' = response_of(v)
    /\ locals' = v
    /\ call' = [op |-> "calculate", arg |-> cfg]
    /\ UNCHANGED <<WEAPON_DB, EQUIPMENT_DB, memo, opt, three_hit, advice>>

Calculate(cfg) == Return(cfg, calculate_locals(cfg))

\* The client keeps the report it last received, with the config it sent.
KeepReport ==
    /\ call.op = "calculate"
    /\ memo' = [data |-> data, result |-> result]
    /\ call' = [op |-> "keep", arg |-> data]
    /\ UNCHANGED <<WEAPON_DB, EQUIPMENT_DB, data, result, locals, opt, three_hit, advice>>

\* calculate_three_hit_damage on its own.
ThreeHit(a) ==
    /\ three_hit' = [arg |-> a,
                     out |-> calculate_three_hit_damage(
                                 a.base_damage, a.dot_damage, a.weapon_type,
                                 a.crit_multiplied_damage)]
    /\ call' = [op |-> "three_hit", arg |-> a]
    /\ UNCHANGED <<WEAPON_DB, EQUIPMENT_DB, data, result, locals, memo, opt, advice>>

\* POST /optimize_stats with body d: reads WEAPON_DB, writes neither table.
OptimizeStats(d) ==
    /\ advice' = [request |-> d, response |-> optimize_stats(d)]
    /\ call' = [op |-> "optimize_stats", arg |-> d]
    /\ UNCHANGED <<WEAPON_DB, EQUIPMENT_DB, data, result, locals, memo, opt, three_hit>>

\* POST /optimize (advanced = FALSE) or /optimize_advanced (TRUE) with body
\* d, up to the loop over all_combinations.
OptimizeStart(d, advanced) ==
    /\ opt.pc # "loop"
    /\ LET base_config == base_config_of(d, advanced)
           available_equipment == available_equipment_of(base_config, advanced)
       IN  opt' = [pc |-> "loop",
                   advanced |-> advanced,
                   request |-> d,
                   base_config |-> base_config,
                   optimization_type |-> Get(d, "optimizationType", "final_damage"),
                   available_equipment |-> available_equipment,
                   all_combinations |-> combinations(available_equipment,
                                                     max_equipment),
                   i |-> 0,
                   test_config |-> EmptyDict,
                   results |-> <<>>,
                   evaluated |-> <<>>,
                   response |-> None]
    /\ call' = [op |-> "optimize_start", arg |-> d]
    /\ UNCHANGED <<WEAPON_DB, EQUIPMENT_DB, data, result, locals, memo, three_hit, advice>>

\* The loop's variables after one candidate: c holds the two configs, r the
\* report calculate_damage returned for test_config.
candidate_done(o, combo, c, r) ==
    [o EXCEPT !.base_config = c.base_config,
              !.test_config = c.test_config,
              !.i = @ + 1,
              !.results = IF r.success
                          THEN Append(@, result_entry(combo, r, o.advanced,
                                                      o.optimization_type))
                          ELSE @,
              !.evaluated = Append(@, c.test_config.equipment)]

candidate_run(o, combo, c) ==
    candidate_done(o, combo, c, calculate_damage(c.test_config))

after_candidate(o, combo) ==
    candidate_run(o, combo, candidate_configs(o.base_config, combo))

\* One pass of the loop: the candidate's config, calculate_damage on it, and
\* its entry appended when the report is a success.  evaluated logs the
\* equipment lists calculate_damage was called with.
OptimizeStep ==
    /\ opt.pc = "loop"
    /\ opt.i < Len(opt.all_combinations)
    /\ opt' = after_candidate(opt, opt.all_combinations[opt.i + 1])
    /\ call' = [op |-> "optimize_step", arg |-> opt.all_combinations[opt.i + 1]]
    /\ UNCHANGED <<WEAPON_DB, EQUIPMENT_DB, data, result, locals, memo, three_hit, advice>>

\* After the loop: sort, cut to the top ten, format, respond.
OptimizeFinish ==
    /\ opt.pc = "loop"
    /\ opt.i = Len(opt.all_combinations)
    /\ opt' = [opt EXCEPT !.pc = "done", !.response = optimize_response(opt)]
    /\ call' = [op |-> "optimize_finish", arg |-> opt.request]
    /\ UNCHANGED <<WEAPON_DB, EQUIPMENT_DB, data, result, locals, memo, three_hit, advice>>

\* ------------------------------------------------------------------------
\* Bounds and inputs.

\* Longest equipment list of a /calculate request.
MaxEquip == 3
\* Entries of the equipment table in the optimizer runs.
CatalogSize == 6
\* Entries of the equipment table in the interleaved system.
SharedCatalogSize == 4
\* calculate_three_hit_damage is tried on total damage 0, 12.5, ..., and
\* DoT 0, 2.5, ...
MaxDamageSteps == 8
MaxDotSteps == 3
\* and on negative values down to -12.5 * NegativeSteps and -2.5 * NegativeSteps.
NegativeSteps == 2

\* The equipment ids of /calculate requests: every item with a set or a
\* special effect the calculation reads, and an id the table does not hold.
EquipPool ==
    << "hunting_dagger", "forest_dweller_axe", "dual_sword", "daybreak",
       "black_wolf_necklace", "blood_butcher", "crimson_slime_fang",
       "cursed_spellbook", "evernight", "volcanic_axe", "queenbee_crown",
       "volatile_gem", "no_such_item" >>

\* Equipment lists over EquipPool of length n, as non-decreasing positions.
RECURSIVE EquipListsFrom(_, _)
EquipListsFrom(lo, n) ==
    IF n = 0 THEN { <<>> }
    ELSE UNION { { <<EquipPool[k]>> \o rest : rest \in EquipListsFrom(k, n - 1) }
                 : k \in lo..Len(EquipPool) }

EquipLists == UNION { EquipListsFrom(1, n) : n \in 0..MaxEquip }

Potions == { <<m, a, g>> : m \in BOOLEAN, a \in BOOLEAN, g \in BOOLEAN }
NoPotions == <<FALSE, FALSE, FALSE>>

Weapons == {"", "winter_howl", "emerald_staff", "eventide", "crescendo_scythe",
            "divine_blade", "no_such_weapon"}

\* /calculate requests: every equipment list under four weapons, and every
\* potion choice, weapon and stat input under a few equipment lists.
EquipConfigs ==
    { ManualConfig(DInt(100), DInt(200), DInt(50), DInt(10), DInt(100),
                   w, eq, NoPotions)
      : w \in {"", "winter_howl", "emerald_staff", "divine_blade"},
        eq \in EquipLists }

StatConfigs ==
    LET eqs == { <<>>, <<"black_wolf_necklace", "volcanic_axe">>,
                 <<"queenbee_crown", "volatile_gem", "forest_dweller_axe">>,
                 <<"no_such_item", "black_wolf_necklace", "no_such_item">> }
    IN  { ManualConfig(s[1], s[2], s[3], s[4], s[5], w, eq, p)
          : s \in { <<DInt(100), DInt(100), DInt(40), DInt(150), DInt(50)>>,
                    <<DZero, DZero, DZero, DZero, DZero>>,
                    <<DQ(125, 1), DQ(33325, 2), DQ(777, 1), DQ(955, 1), DQ(125, 1)>> },
            w \in Weapons, eq \in eqs, p \in Potions }
        \cup
        { PointConfig(s[1], s[2], s[3], s[4], s[5], w, eq, p)
          : s \in { <<DInt(60), DInt(5), DInt(3), DInt(70), DInt(2)>>,
                    <<DZero, DZero, DInt(120), DInt(49), DZero>> },
            w \in Weapons, eq \in eqs, p \in Potions }

CalcConfigs == EquipConfigs \cup StatConfigs

\* The requests of the interleaved system.
FewConfigs ==
    { ManualConfig(DInt(100), DInt(100), DInt(40), DInt(150), DInt(50),
                   "divine_blade", <<"hunting_dagger", "cursed_spellbook">>,
                   <<FALSE, TRUE, TRUE>>),
      ManualConfig(DInt(100), DInt(200), DInt(50), DInt(10), DInt(100),
                   "", <<"volcanic_axe", "black_wolf_necklace", "no_such_item">>,
                   NoPotions),
      PointConfig(DInt(60), DInt(5), DInt(3), DInt(70), DInt(2),
                  "emerald_staff", <<"daybreak", "volatile_gem">>,
                  <<TRUE, FALSE, FALSE>>) }

ThreeHitInputs ==
    { [base_damage |-> DZero, dot_damage |-> DQ(25 * d, 1), weapon_type |-> w,
       crit_multiplied_damage |-> DQ(125 * t, 1)]
      : t \in -NegativeSteps..MaxDamageSteps, d \in -NegativeSteps..MaxDotSteps,
        w \in {"staff", "bow", "sword", "blade", "scythe", "axe", ""} }

\* Requests with defects.  Two complete bodies, one per mode.
ManualBody ==
    ManualConfig(DInt(100), DInt(200), DInt(50), DInt(10), DInt(100),
                 "winter_howl", <<"black_wolf_necklace", "volcanic_axe">>,
                 <<FALSE, TRUE, FALSE>>)

PointBody ==
    PointConfig(DInt(60), DInt(5), DInt(3), DInt(70), DInt(2),
                "emerald_staff", <<"daybreak", "volatile_gem">>,
                <<TRUE, FALSE, FALSE>>)

\* The number fields of a body, both modes.
NumericFields ==
    {"strength", "vitality", "intelligence", "dexterity", "defense",
     "minDamage", "maxDamage", "magicDamage", "critRate", "critDamage"}

\* Values a client may put in a number field: texts that are no numeral,
\* numerals as text, null, negative numbers.
OddValues ==
    { JStr(<<"a", "b", "c">>), JStr(<<>>), JStr(<<"1", "2", "x">>),
      JStr(<<"1", "2">>), JStr(<<"3", ".", "5">>), JStr(<<"-", "4">>),
      JNull, JNum(DInt(-5)), JNum(DQ(-25, 1)) }

\* A body with field f set to v, whether or not the body held f.
WithField(body, f, v) ==
    [k \in DOMAIN body \cup {f} |-> IF k = f THEN v ELSE body[k]]

\* A body cut down to the fields of keep.
Restrict(body, keep) == [k \in DOMAIN body \cap keep |-> body[k]]

OddFieldConfigs ==
    { WithField(b, f, v) : b \in {ManualBody, PointBody},
                           f \in NumericFields, v \in OddValues }

\* An equipment field that is no list: a number, null.
OddEquipmentConfigs ==
    { WithField(b, "equipment", Scalar(v))
      : b \in {ManualBody, PointBody}, v \in {JNum(DInt(5)), JNull} }

\* Bodies with up to MaxAbsent fields left out, and bodies of up to
\* MaxAbsent fields, the empty body among them.
MaxAbsent == 2

SparseConfigs ==
    UNION { { Restrict(b, keep)
              : keep \in { S \in SUBSET DOMAIN b :
                             \/ Cardinality(S) <= MaxAbsent
                             \/ Cardinality(DOMAIN b \ S) <= MaxAbsent } }
            : b \in {ManualBody, PointBody} }

\* Manual input whose physical or magic damage comes to zero.
ZeroBaseConfigs ==
    { ManualConfig(DInt(-100), DInt(100), m, DInt(10), DInt(100), w, eq, p)
      : m \in {DInt(50), DInt(-500)}, w \in {"", "emerald_staff"},
        eq \in {<<>>, <<"blood_butcher">>}, p \in {NoPotions, <<TRUE, TRUE, FALSE>>} }

\* Manual bodies without weapon and equipment: the five fields supplied,
\* each in turn zero or left out, and all five zero.
BareManualBody ==
    Restrict(ManualBody, {"usePointSystem"} \cup
                         {"minDamage", "maxDamage", "magicDamage", "critRate", "critDamage"})

FallbackConfigs ==
    { WithField(BareManualBody, f, JNum(DZero))
      : f \in {"minDamage", "maxDamage", "magicDamage", "critRate", "critDamage"} }
    \cup { Restrict(BareManualBody, DOMAIN BareManualBody \ {f})
           : f \in {"minDamage", "maxDamage", "magicDamage", "critRate", "critDamage"} }
    \cup { BareManualBody,
           [k \in DOMAIN BareManualBody |->
               IF k = "usePointSystem" THEN FALSE ELSE JNum(DZero)] }

\* The absent body is None.
InputConfigs ==
    {None} \cup OddFieldConfigs \cup OddEquipmentConfigs
           \cup SparseConfigs \cup ZeroBaseConfigs \cup FallbackConfigs

\* The equipment table of an optimizer run: the entries of the source table
\* whose keys are among the first n of CatalogOrder, in the table's order.
CatalogOrder ==
    << "burning_torch", "hunting_dagger", "black_wolf_necklace", "volcanic_axe",
       "blood_butcher", "cursed_spellbook", "daybreak", "volatile_gem" >>

Catalog(n) ==
    LET keep == { CatalogOrder[k] : k \in 1..(IF n < Len(CatalogOrder) THEN n
                                              ELSE Len(CatalogOrder)) }
    IN  [keys |-> SelectSeq(EquipmentDbSource.keys, LAMBDA k : k \in keep),
         items |-> [k \in keep |-> EquipmentDbSource.items[k]]]

BaseConfigs ==
    { [usePointSystem |-> FALSE, selectedWeapon |-> "winter_howl",
       minDamage |-> JNum(DInt(100)), maxDamage |-> JNum(DInt(200)),
       magicDamage |-> JNum(DInt(50)), critRate |-> JNum(DInt(10)),
       critDamage |-> JNum(DInt(100)),
       magicPotion |-> FALSE, attackPotion |-> TRUE, goldenApple |-> FALSE],
      [usePointSystem |-> FALSE, selectedWeapon |-> "emerald_staff",
       minDamage |-> JNum(DInt(100)), maxDamage |-> JNum(DInt(200)),
       magicDamage |-> JNum(DInt(50)), critRate |-> JNum(DInt(10)),
       critDamage |-> JNum(DInt(100)),
       magicPotion |-> FALSE, attackPotion |-> TRUE, goldenApple |-> FALSE],
      [usePointSystem |-> TRUE, selectedWeapon |-> "emerald_staff",
       strength |-> JNum(DInt(10)), vitality |-> JNum(DInt(5)),
       intelligence |-> JNum(DInt(120)), dexterity |-> JNum(DInt(30)),
       defense |-> JNum(DZero),
       magicPotion |-> TRUE, attackPotion |-> FALSE, goldenApple |-> FALSE] }

OptimizeRequests ==
    { [d |-> s, advanced |-> FALSE] : s \in BaseConfigs }
    \cup
    { [d |-> s @@ [playerLevel |-> l, optimizationType |-> ty], advanced |-> TRUE]
      : s \in BaseConfigs, l \in {1, 65, 190},
        ty \in {"final_damage", "three_hit", "first_hit", "dot", "other"} }
    \cup
    { [d |-> WithField(s, f, JStr(<<"a", "b", "c">>)), advanced |-> FALSE]
      : s \in { b \in BaseConfigs : b.selectedWeapon = "emerald_staff" },
        f \in {"strength", "minDamage"} }
    \cup
    { [d |-> WithField(s, f, JStr(<<"a", "b", "c">>))
               @@ [playerLevel |-> 190, optimizationType |-> "final_damage"],
       advanced |-> TRUE]
      : s \in { b \in BaseConfigs : b.selectedWeapon = "emerald_staff" },
        f \in {"strength", "minDamage"} }

\* The optimizer requests of the interleaved system: /optimize with manual
\* stats, /optimize_advanced by three-hit total with attribute points.
SharedRequests ==
    { q \in OptimizeRequests :
        IF q.advanced
        THEN q.d.usePointSystem /\ q.d.optimizationType = "three_hit"
             /\ q.d.playerLevel = 65
        ELSE ~q.d.usePointSystem /\ q.d.selectedWeapon = "winter_howl" }

\* /optimize_stats requests.
StatsRequests ==
    { [playerLevel |-> l, vitality |-> JNum(DInt(v)), selectedWeapon |-> w]
      : l \in {10, 60}, v \in {7}, w \in {"emerald_staff"} }

\* /optimize_stats requests on their own: levels on both sides of 50 and
\* of 100, a vitality of 0..MaxVitality points, of all points but
\* 0..MaxVitality, and of up to MaxVitality points more than the level
\* gives, with a staff, a sword, no weapon and a weapon WEAPON_DB does not
\* hold.
MaxVitality == 6

StatLevels == {0, 1, 2, 10, 49, 50, 60, 99, 100, 101, 190}

\* The vitality values tried at level l.
StatVitalities(l) ==
    { x \in (0..MaxVitality) \cup { 2 * l + k : k \in -MaxVitality..MaxVitality } :
        x >= 0 }

StatInputs ==
    UNION { { [playerLevel |-> l, vitality |-> JNum(DInt(v)), selectedWeapon |-> w]
              : v \in StatVitalities(l),
                w \in {"", "emerald_staff", "winter_howl", "no_such_weapon"} }
            : l \in StatLevels }

\* ------------------------------------------------------------------------
\* Specifications.

InitRest ==
    /\ WEAPON_DB = WeaponDbSource
    /\ data = None
    /\ result = None
    /\ locals = None
    /\ memo = None
    /\ opt = OptIdle
    /\ three_hit = None
    /\ advice = None

\* The interleaved system: /calculate requests, the client keeping a
\* report, and an optimizer request running its loop.
Init ==
    /\ InitRest
    /\ EQUIPMENT_DB = Catalog(SharedCatalogSize)
    /\ call = [op |-> "init", arg |-> None]

Next ==
    \/ \E cfg \in FewConfigs : Calculate(cfg)
    \/ KeepReport
    \/ \E q \in SharedRequests : OptimizeStart(q.d, q.advanced)
    \/ OptimizeStep
    \/ OptimizeFinish
    \/ \E d \in StatsRequests : OptimizeStats(d)

Spec == Init /\ [][Next]_vars

\* calculate_damage on each request of CalcConfigs, over the whole table.
InitCalc ==
    /\ InitRest
    /\ EQUIPMENT_DB = EquipmentDbSource
    /\ \E cfg \in CalcConfigs : call = [op |-> "request", arg |-> cfg]

NextCalc == call.op = "request" /\ Calculate(call.arg)

SpecCalc == InitCalc /\ [][NextCalc]_vars

\* calculate_damage on each request of InputConfigs, over the whole table.
InitInput ==
    /\ InitRest
    /\ EQUIPMENT_DB = EquipmentDbSource
    /\ \E cfg \in InputConfigs : call = [op |-> "request", arg |-> cfg]

NextInput == call.op = "request" /\ Calculate(call.arg)

SpecInput == InitInput /\ [][NextInput]_vars

\* calculate_three_hit_damage on each input of ThreeHitInputs.
InitThreeHit ==
    /\ InitRest
    /\ EQUIPMENT_DB = EquipmentDbSource
    /\ \E a \in ThreeHitInputs : call = [op |-> "request", arg |-> a]

NextThreeHit == call.op = "request" /\ ThreeHit(call.arg)

SpecThreeHit == InitThreeHit /\ [][NextThreeHit]_vars

\* One /optimize_stats request and its response.
InitStats ==
    /\ InitRest
    /\ EQUIPMENT_DB = EquipmentDbSource
    /\ \E d \in StatInputs : call = [op |-> "request", arg |-> d]

NextStats == call.op = "request" /\ OptimizeStats(call.arg)

SpecStats == InitStats /\ [][NextStats]_vars

\* One optimizer request, from its start to its response, over equipment
\* tables of 0 to CatalogSize entries, and over the whole table for the
\* advanced requests of a level 1 player (5 items within the level).
InitOpt ==
    /\ InitRest
    /\ \E q \in OptimizeRequests :
          /\ call = [op |-> "request", arg |-> q]
          /\ \/ \E n \in 0..CatalogSize : EQUIPMENT_DB = Catalog(n)
             \/ /\ q.advanced
                /\ q.d.playerLevel = 1
                /\ EQUIPMENT_DB = EquipmentDbSource

NextOpt ==
    \/ call.op = "request" /\ OptimizeStart(call.arg.d, call.arg.advanced)
    \/ OptimizeStep
    \/ OptimizeFinish

SpecOpt == InitOpt /\ [][NextOpt]_vars

\* ------------------------------------------------------------------------
\* Properties of calculate_damage (SpecCalc).

\* The numeric fields of a config, and whether all it holds are >= 0.
InputsNonNegative ==
    \A k \in DOMAIN data \cap NumericFields : data[k].t = "num" /\ data[k].n.s = 1

\* The last step was a calculate_damage call that returned a report.
Reported == call.op = "calculate" /\ locals.ok

\* C1: for a config whose numeric inputs are all non-negative, and any
\* equipment list, a successful report has
\* final_damage >= crit_multiplied_damage >= 0 and dot_damage >= 0, in the
\* rounded report and in the values it was rounded from.
C1_FinalAtLeastTotal ==
    (Reported /\ result.success /\ InputsNonNegative) =>
        /\ DLe(DZero, result.crit_multiplied_damage)
        /\ DLe(result.crit_multiplied_damage, result.final_damage)
        /\ DLe(DZero, result.dot_damage)
        /\ DLe(DZero, locals.total_damage)
        /\ DLe(locals.total_damage, locals.final_damage)
        /\ DLe(DZero, locals.dot.dot_damage)

\* A report with DoT and an equipment multiplier on a positive total.
C1_Witness ==
    /\ Reported /\ result.success /\ InputsNonNegative
    /\ In("cursed_spellbook", locals.equipment)
    /\ DLt(DZero, result.dot_damage)
    /\ DLt(DZero, result.crit_multiplied_damage)
    /\ DLt(result.crit_multiplied_damage, result.final_damage)

\* C4: for wolf_howl, crimson, forest_dweller, explorer and flame, a tally
\* of 0 or 1 neither sets the flag nor applies the effect, and a tally of 2
\* or more sets the flag and applies the effect once, with one magnitude
\* (+12 crit rate, x1.18 magic, x1.18 physical, +200 health, +0.10 burn
\* chance); for forest_dweller this is so when the damage type is attack,
\* and with damage type magic its flag stays off and nothing is applied.
C4_SetBonusThreshold ==
    Reported =>
        LET n == locals.set_counts
            flag == locals.set_bonus_applied
            forest == n["forest_dweller"] >= 2 /\ locals.damage_type = "attack"
            before == locals.after_potions
        IN  /\ flag["wolf_howl"] = (n["wolf_howl"] >= 2)
            /\ locals.total_crit_rate =
                   DAdd(locals.crit_rate,
                        IF n["wolf_howl"] >= 2 THEN DInt(12) ELSE DZero)
            /\ flag["crimson"] = (n["crimson"] >= 2)
            /\ locals.effective_magic_damage =
                   DMul(before.effective_magic_damage,
                        IF n["crimson"] >= 2 THEN DQ(118, 2) ELSE DInt(1))
            /\ flag["forest_dweller"] = forest
            /\ \A f \in {"effective_min_damage", "effective_max_damage",
                         "effective_avg_physical_damage"} :
                   locals[f] = DMul(before[f],
                                    IF forest THEN DQ(118, 2) ELSE DInt(1))
            /\ flag["explorer"] = (n["explorer"] >= 2)
            /\ locals.use_point_system =>
                   result.player_stats.health =
                       DAdd(DMul(locals.vitality, DInt(35)),
                            IF n["explorer"] >= 2 THEN DInt(200) ELSE DZero)
            /\ flag["flame"] = (n["flame"] >= 2)
            /\ locals.dot.burn_chance =
                   DAdd(flame_chances([burn_chance |-> DZero,
                                       poison_chance |-> DZero,
                                       has_volatile_gem |-> FALSE],
                                      locals.equipment).burn_chance,
                        IF n["flame"] >= 2 THEN DQ(10, 2) ELSE DZero)

\* The crimson bonus applied at a tally of 3.
C4_Witness ==
    /\ Reported
    /\ locals.set_counts["crimson"] = 3
    /\ locals.set_bonus_applied["crimson"]
    /\ locals.set_counts["forest_dweller"] = 0
    /\ DLt(locals.after_potions.effective_magic_damage, locals.effective_magic_damage)

\* C4 as stated: the flag of each of the five sets is on exactly when its
\* tally is 2 or more, whatever the loadout.
C4_AsStated ==
    Reported =>
        \A s \in {"wolf_howl", "crimson", "forest_dweller", "explorer", "flame"} :
            locals.set_bonus_applied[s] = (locals.set_counts[s] >= 2)

\* The magic stat of the weapon and of every equipment entry, summed.
RECURSIVE MagicOfEquipment(_)
MagicOfEquipment(equipment) ==
    IF equipment = <<>> THEN 0
    ELSE Get(Get(DbGet(EQUIPMENT_DB, Head(equipment)), "stats", EmptyDict),
             "magic", 0)
         + MagicOfEquipment(Tail(equipment))

MagicOfWeapon ==
    Get(Get(DbGet(WEAPON_DB, locals.selected_weapon), "stats", EmptyDict), "magic", 0)

\* C5: the potions multiply the totals after equipment: attackPotion the
\* effective min, max and average physical damage by 1.75, goldenApple by
\* 1.5, both by 2.625, magicPotion the magic damage alone by 1.75; the
\* magic total they multiply is base + weapon + equipment; and manual
\* minDamage = maxDamage = 100 without weapon or equipment, with both
\* physical potions, reports avg_physical_damage 100 and
\* effective_avg_physical_damage 262.5.
C5_PotionMultipliers ==
    Reported =>
        LET physical == IF locals.has_attack_potion /\ locals.has_golden_apple
                        THEN DQ(2625, 3)
                        ELSE IF locals.has_attack_potion THEN DQ(175, 2)
                        ELSE IF locals.has_golden_apple THEN DQ(15, 1)
                        ELSE DInt(1)
            magic == IF locals.has_magic_potion THEN DQ(175, 2) ELSE DInt(1)
            after == locals.after_potions
        IN  /\ after.effective_min_damage = DMul(locals.min_damage, physical)
            /\ after.effective_max_damage = DMul(locals.max_damage, physical)
            /\ after.effective_avg_physical_damage =
                   DMul(DHalf(DAdd(locals.min_damage, locals.max_damage)), physical)
            /\ after.effective_magic_damage = DMul(locals.magic_damage, magic)
            /\ ~locals.use_point_system =>
                   after.effective_magic_damage =
                       DMul(DAdd(Or(data.magicDamage.n, DInt(10)),
                                 DInt(MagicOfWeapon
                                      + MagicOfEquipment(locals.equipment))),
                            magic)
            /\ ( /\ ~locals.use_point_system
                 /\ data.minDamage.n = DInt(100) /\ data.maxDamage.n = DInt(100)
                 /\ locals.selected_weapon = "" /\ locals.equipment = <<>>
                 /\ locals.has_attack_potion /\ locals.has_golden_apple )
               => /\ result.avg_physical_damage = DInt(100)
                  /\ result.effective_avg_physical_damage = DQ(2625, 1)

\* Both physical potions and the magic potion on totals that a weapon and
\* equipment have added to.
C5_Witness ==
    /\ Reported
    /\ locals.has_attack_potion /\ locals.has_golden_apple /\ locals.has_magic_potion
    /\ locals.selected_weapon = "emerald_staff"
    /\ MagicOfEquipment(locals.equipment) > 0
    /\ DLt(locals.magic_damage, locals.after_potions.effective_magic_damage)
    /\ DLt(locals.min_damage, locals.after_potions.effective_min_damage)

\* C6: the crit fraction of the expected-damage split is
\* min(total_crit_rate / 100, 1): never above 1, and for a total crit rate
\* above 100 exactly 1, the non-crit part 0 and the total damage
\* crit_base_damage * (1 + total_crit_damage / 100).
C6_CritCap ==
    Reported =>
        LET c == locals.crit
        IN  /\ DLe(c.crit_rate, DInt(1))
            /\ DLe(result.calculation_details.crit_calculation.crit_rate_percent,
                   DInt(100))
            /\ IF DLt(DInt(100), locals.total_crit_rate)
               THEN /\ c.crit_rate = DInt(1)
                    /\ c.expected_non_crit_damage = DZero
                    /\ c.total_damage =
                           DMul(c.crit_base_damage,
                                DAdd(DInt(1), DPercent(locals.total_crit_damage)))
               ELSE DMul(c.crit_rate, DInt(100)) = locals.total_crit_rate

\* Manual critRate = 150 on a positive crit pool.
C6_Witness ==
    /\ Reported
    /\ ~locals.use_point_system
    /\ data.critRate.n = DInt(150)
    /\ DLt(DInt(100), locals.total_crit_rate)
    /\ locals.crit.crit_rate = DInt(1)
    /\ DLt(DZero, locals.crit.total_damage)

\* No weapon selected, or a weapon id the table does not hold.
Unarmed ==
    locals.selected_weapon = "" \/ ~Has(WEAPON_DB.items, locals.selected_weapon)

\* C8: with no weapon selected, or a weapon id the table does not hold,
\* calculate_damage reports the three hits of the sword chain:
\* T + D, 3T + D, 6T + D, bonus 0, total 10T + 3D, for total damage T and
\* DoT D.
C8_UnarmedIsSwordChain ==
    (Reported /\ Unarmed) =>
        LET T == locals.total_damage
            D == locals.dot.dot_damage
            h == locals.three_hit_data
        IN  /\ h.hit_1 = DAdd(T, D)
            /\ h.hit_2 = DAdd(DMul(DInt(3), T), D)
            /\ h.hit_3 = DAdd(DMul(DInt(6), T), D)
            /\ h.bonus_damage = DZero
            /\ h.total_damage = DAdd(DMul(DInt(10), T), DMul(DInt(3), D))
            /\ result.three_hit_damage.hit_3 = DRound(h.hit_3, 2)
            /\ result.three_hit_damage.total_damage = DRound(h.total_damage, 2)

\* An unknown weapon id on a positive total with DoT.
C8_Witness ==
    /\ Reported /\ locals.selected_weapon = "no_such_weapon"
    /\ DLt(DZero, locals.total_damage)
    /\ DLt(DZero, locals.dot.dot_damage)
    /\ DLt(result.three_hit_damage.hit_1, result.three_hit_damage.hit_3)

\* C8 as stated: without a weapon the table holds, the report has three
\* identical hits of T + D, bonus 0 and total 3 (T + D).
C8_AsStated ==
    (Reported /\ Unarmed) =>
        LET plain == DAdd(locals.total_damage, locals.dot.dot_damage)
            h == locals.three_hit_data
        IN  /\ h.hit_1 = plain /\ h.hit_2 = plain /\ h.hit_3 = plain
            /\ h.bonus_damage = DZero
            /\ h.total_damage = DMul(DInt(3), plain)

\* ------------------------------------------------------------------------
\* Properties of calculate_three_hit_damage (SpecThreeHit).

\* C7: for total damage T and DoT D: staff, three hits of T + D, bonus 3T,
\* total 3(T + D) + 3T; bow, three hits of 2T + D, bonus 0, total
\* 3(2T + D); sword and blade, hits T + D, 3T + D, 6T + D, bonus 0, total
\* 10T + 3D; scythe, three hits of 4T * 0.25 + 0.75T + D, bonus 0, total
\* three times that.  With T = 100 and D = 0 the totals are 600, 600, 1000
\* and 525.
C7_ThreeHitMechanics ==
    call.op = "three_hit" =>
        LET T == three_hit.arg.crit_multiplied_damage
            D == three_hit.arg.dot_damage
            w == three_hit.arg.weapon_type
            h == three_hit.out
            Same(x) == h.hit_1 = x /\ h.hit_2 = x /\ h.hit_3 = x
            scythe == DAdd(DAdd(DMul(DMul(DInt(4), T), DQ(25, 2)),
                                DMul(DQ(75, 2), T)), D)
            example == T = DInt(100) /\ D = DZero
        IN  /\ w = "staff" =>
                /\ Same(DAdd(T, D))
                /\ h.bonus_damage = DMul(DInt(3), T)
                /\ h.total_damage = DAdd(DMul(DInt(3), DAdd(T, D)), DMul(DInt(3), T))
                /\ example => h.total_damage = DInt(600)
            /\ w = "bow" =>
                /\ Same(DAdd(DMul(DInt(2), T), D))
                /\ h.bonus_damage = DZero
                /\ h.total_damage = DMul(DInt(3), DAdd(DMul(DInt(2), T), D))
                /\ example => h.total_damage = DInt(600)
            /\ w \in {"sword", "blade"} =>
                /\ h.hit_1 = DAdd(T, D)
                /\ h.hit_2 = DAdd(DMul(DInt(3), T), D)
                /\ h.hit_3 = DAdd(DMul(DInt(6), T), D)
                /\ h.bonus_damage = DZero
                /\ h.total_damage = DAdd(DMul(DInt(10), T), DMul(DInt(3), D))
                /\ example => h.total_damage = DInt(1000)
            /\ w = "scythe" =>
                /\ Same(scythe)
                /\ h.bonus_damage = DZero
                /\ h.total_damage = DMul(DInt(3), scythe)
                /\ example => h.total_damage = DInt(525)

\* The scythe on T = 100, D = 0.
C7_Witness ==
    /\ call.op = "three_hit"
    /\ three_hit.arg.weapon_type = "scythe"
    /\ three_hit.arg.crit_multiplied_damage = DInt(100)
    /\ three_hit.arg.dot_damage = DZero
    /\ three_hit.out.total_damage = DInt(525)

\* ------------------------------------------------------------------------
\* Properties of the interleaved system (Spec).

\* C2: a calculate_damage call with the config of an earlier call returns
\* the report the earlier call returned, whatever calculate, optimize,
\* optimize_advanced and optimize_stats calls came before or between.
C2_SameConfigSameReport ==
    (call.op = "calculate" /\ Has(memo, "data") /\ memo.data = call.arg) =>
        result = memo.result

\* The second call of a config, after an optimizer run and an
\* optimize_stats call.
C2_Witness ==
    /\ call.op = "calculate" /\ Has(memo, "data") /\ memo.data = call.arg
    /\ result.success
    /\ opt.pc = "done"
    /\ Has(advice, "response")

\* C3: no step changes WEAPON_DB or EQUIPMENT_DB; after calculate_damage
\* the config is as it was handed in, its equipment list included; and the
\* optimizer's base_config stays as it is from one candidate to the next.
C3_TablesAndConfigsUnchanged ==
    [][/\ WEAPON_DB' = WEAPON_DB
       /\ EQUIPMENT_DB' = EQUIPMENT_DB
       /\ call'.op = "calculate" => data' = call'.arg
       /\ opt.pc = "loop" => opt'.base_config = opt.base_config]_vars

\* Every handler has run: a report, a finished optimizer loop over several
\* candidates, a stat recommendation.
C3_Witness ==
    /\ Has(result, "success")
    /\ opt.pc = "done" /\ opt.i >= 2
    /\ Has(advice, "response")
    /\ WEAPON_DB = WeaponDbSource

\* ------------------------------------------------------------------------
\* Properties of one optimizer run (SpecOpt).

\* The equipment ids the run may draw from: every key of the table, or for
\* optimize_damage_advanced those whose level_req is within playerLevel.
Eligible ==
    { k \in DOMAIN EQUIPMENT_DB.items :
        opt.advanced =>
            Get(EQUIPMENT_DB.items[k], "level_req", 0)
                <= Get(opt.request, "playerLevel", 190) }

Choose3(n) == (n * (n - 1) * (n - 2)) \div 6

SetOf(s) == { s[i] : i \in 1..Len(s) }

\* C9: with n eligible items the optimizer hands each of the C(n,3)
\* 3-item subsets to calculate_damage exactly once, and reports
\* total_combinations_tested = C(n,3).
C9_EachSubsetOnce ==
    opt.pc = "done" =>
        /\ Len(opt.evaluated) = Choose3(Cardinality(Eligible))
        /\ \A S \in { T \in SUBSET Eligible : Cardinality(T) = 3 } :
               Cardinality({ i \in 1..Len(opt.evaluated) :
                               SetOf(opt.evaluated[i]) = S }) = 1
        /\ \A i \in 1..Len(opt.evaluated) :
               Len(opt.evaluated[i]) = 3 /\ Cardinality(SetOf(opt.evaluated[i])) = 3
        /\ opt.response.total_combinations_tested = Choose3(Cardinality(Eligible))

\* optimize_damage_advanced over the whole table for a level 1 player:
\* 5 eligible items, 10 combinations.
C9_Witness ==
    /\ opt.pc = "done"
    /\ EQUIPMENT_DB = EquipmentDbSource
    /\ Cardinality(Eligible) = 5
    /\ Len(opt.evaluated) = 10
    /\ opt.response.total_combinations_tested = 10

\* The field of an entry the run sorts by.
ScoreField ==
    IF ~opt.advanced THEN "final_damage"
    ELSE IF opt.optimization_type = "three_hit" THEN "three_hit_total"
    ELSE IF opt.optimization_type = "first_hit" THEN "first_hit"
    ELSE IF opt.optimization_type = "dot" THEN "dot_damage"
    ELSE "final_damage"

\* C10: the returned list has at most 10 entries, in non-increasing order
\* of the selected score; no two entries hold the same subset; each holds
\* 3 distinct ids of the table; and every evaluated subset left out scores
\* no more than the last entry returned.
C10_TopTenSorted ==
    opt.pc = "done" =>
        LET top == opt.response.top_combinations
            ids(k) == SetOf(top[k].equipment_ids)
        IN  /\ Len(top) <= 10
            /\ \A k \in 1..(Len(top) - 1) :
                   DLe(top[k + 1][ScoreField], top[k][ScoreField])
            /\ \A j, k \in 1..Len(top) : j # k => ids(j) # ids(k)
            /\ \A k \in 1..Len(top) :
                   /\ Len(top[k].equipment_ids) = 3
                   /\ Cardinality(ids(k)) = 3
                   /\ ids(k) \subseteq DOMAIN EQUIPMENT_DB.items
            /\ \A i \in 1..Len(opt.results) :
                   (\A k \in 1..Len(top) : ids(k) # SetOf(opt.results[i].equipment))
                   => DLe(opt.results[i][ScoreField], top[Len(top)][ScoreField])

\* A run with more than 10 scored subsets and scores that differ.
C10_Witness ==
    /\ opt.pc = "done"
    /\ Len(opt.results) > 10
    /\ Len(opt.response.top_combinations) = 10
    /\ DLt(opt.response.top_combinations[10][ScoreField],
           opt.response.top_combinations[1][ScoreField])

\* The level requirement of a table item and the level the request plays at.
LevelReq(eq_id) == Get(EQUIPMENT_DB.items[eq_id], "level_req", 0)

PlayerLevel == Get(opt.request, "playerLevel", 190)

\* C11: in optimize_damage_advanced no item whose level_req exceeds
\* playerLevel is in a combination handed to calculate_damage, in a scored
\* entry or in a returned combination, and available_equipment_count is the
\* number of table items with level_req <= playerLevel.
C11_LevelFilter ==
    (opt.pc # "idle" /\ opt.advanced) =>
        /\ \A i \in 1..Len(opt.evaluated) :
               \A k \in 1..Len(opt.evaluated[i]) :
                   LevelReq(opt.evaluated[i][k]) <= PlayerLevel
        /\ \A i \in 1..Len(opt.results) :
               \A k \in 1..Len(opt.results[i].equipment) :
                   LevelReq(opt.results[i].equipment[k]) <= PlayerLevel
        /\ opt.pc = "done" =>
               /\ \A i \in 1..Len(opt.response.top_combinations) :
                      \A id \in SetOf(opt.response.top_combinations[i].equipment_ids) :
                          LevelReq(id) <= PlayerLevel
               /\ opt.response.available_equipment_count
                      = Cardinality({ id \in DOMAIN EQUIPMENT_DB.items :
                                        LevelReq(id) <= PlayerLevel })

\* A finished advanced run that returned combinations from a table holding
\* three or more items within the level and an item above it.
C11_Witness ==
    /\ opt.pc = "done" /\ opt.advanced
    /\ Len(opt.response.top_combinations) >= 1
    /\ \E id \in DOMAIN EQUIPMENT_DB.items : LevelReq(id) > PlayerLevel
    /\ opt.response.available_equipment_count >= 3

\* The positions in the returned list of the subset scored as results[i]
\* (results holds the scored subsets in the order combinations() gave them).
TopPositions(i) ==
    { k \in 1..Len(opt.response.top_combinations) :
        opt.response.top_combinations[k].equipment_ids = opt.results[i].equipment }

\* Two scored subsets with the same score, i enumerated before j.
TiedPair(i, j) ==
    /\ i < j
    /\ DEq(opt.results[i][ScoreField], opt.results[j][ScoreField])

\* C12: of two subsets with equal score the one enumerated first comes
\* first in the returned list, and when the later one is returned the
\* earlier one is returned too (at the top-10 cut the earlier ones of a tie
\* are the ones kept).
C12_StableTieBreak ==
    opt.pc = "done" =>
        \A i, j \in 1..Len(opt.results) :
            (TiedPair(i, j) /\ TopPositions(j) # {}) =>
                /\ TopPositions(i) # {}
                /\ \A a \in TopPositions(i), b \in TopPositions(j) : a < b

\* A run whose tenth place is tied: of two subsets with equal score the
\* earlier is returned and the later is cut, and two more tied subsets are
\* both returned.
C12_Witness ==
    /\ opt.pc = "done"
    /\ Len(opt.results) > 10
    /\ \E i, j \in 1..Len(opt.results) :
           TiedPair(i, j) /\ TopPositions(i) # {} /\ TopPositions(j) = {}
    /\ \E i, j \in 1..Len(opt.results) :
           TiedPair(i, j) /\ TopPositions(i) # {} /\ TopPositions(j) # {}

\* ------------------------------------------------------------------------
\* Properties of calculate_damage on requests with defects (SpecInput).

\* The call returned for the body in data.
Answered == call.op = "calculate"

\* The failure shape: success false, an error message, nothing else.
FailureShape == DOMAIN result = {"success", "error"} /\ ~result.success

PointFields == {"strength", "vitality", "intelligence", "dexterity", "defense"}

ManualFields == {"minDamage", "maxDamage", "magicDamage", "critRate", "critDamage"}

\* The number fields the call reads: the five attribute points under
\* usePointSystem, the five manual fields otherwise.
FieldsRead ==
    IF data = None THEN {}
    ELSE IF Get(data, "usePointSystem", FALSE) THEN PointFields ELSE ManualFields

\* A value that is no number and no numeral: null, or text that is empty or
\* holds a character other than a digit, a sign and a point.
NotNumeric(j) ==
    \/ j.t = "null"
    \/ /\ j.t = "str"
       /\ \/ j.s = <<>>
          \/ \E i \in 1..Len(j.s) :
                 j.s[i] \notin {"0", "1", "2", "3", "4", "5", "6", "7", "8", "9",
                                "-", "+", "."}

Negative(j) == j.t = "num" /\ j.n.s = -1

\* C14: a request in which a number field the call reads holds a negative
\* number is answered with a failure.
C14_NegativeFieldFails ==
    Answered =>
        ((\E f \in FieldsRead \cap DOMAIN data : Negative(data[f]))
            => ~result.success)

\* What an absent field stands for: zero, false, the empty list, no weapon,
\* level 190, crit rate 1 and crit damage 100.
FieldDefaults ==
    [usePointSystem |-> FALSE, selectedWeapon |-> "", playerLevel |-> 190,
     strength |-> JNum(DZero), vitality |-> JNum(DZero),
     intelligence |-> JNum(DZero), dexterity |-> JNum(DZero),
     defense |-> JNum(DZero),
     minDamage |-> JNum(DZero), maxDamage |-> JNum(DZero),
     magicDamage |-> JNum(DZero),
     critRate |-> JNum(DInt(1)), critDamage |-> JNum(DInt(100)),
     equipment |-> <<>>,
     magicPotion |-> FALSE, attackPotion |-> FALSE, goldenApple |-> FALSE]

\* The body in data holds no defect: a body, its number fields numbers, its
\* equipment a list.
WellFormed ==
    /\ data # None
    /\ \A f \in NumericFields \cap DOMAIN data : data[f].t = "num"
    /\ Has(data, "equipment") => IsList(data.equipment)

\* C15: a body with any of its fields absent, the empty body included, is
\* answered with success true, and the report is the report of the body
\* with each absent field filled in with its default.
C15_AbsentFieldsDefault ==
    (Answered /\ WellFormed) =>
        /\ result.success
        /\ result = calculate_damage(data @@ FieldDefaults)

\* The empty body, answered with a report.
C15_Witness ==
    /\ Answered /\ data # None
    /\ DOMAIN data = {}
    /\ result.success
    /\ result = calculate_damage(FieldDefaults)

\* ------------------------------------------------------------------------
\* Ids the tables do not hold (SpecCalc).

\* The body in data without the equipment ids EQUIPMENT_DB does not hold,
\* and with no weapon selected when WEAPON_DB does not hold the weapon id.
WithoutUnknownIds ==
    [data EXCEPT
       !.equipment = SelectSeq(@, LAMBDA id : id \in DOMAIN EQUIPMENT_DB.items),
       !.selectedWeapon = IF @ \in DOMAIN WEAPON_DB.items THEN @ ELSE ""]

HasUnknownId ==
    \/ \E i \in 1..Len(data.equipment) :
           data.equipment[i] \notin DOMAIN EQUIPMENT_DB.items
    \/ data.selectedWeapon \notin DOMAIN WEAPON_DB.items \cup {""}

\* C16: an equipment id absent from EQUIPMENT_DB, or a weapon id absent
\* from WEAPON_DB, changes nothing: the call succeeds and its report is the
\* report of the same body with the id removed (weapon: none selected).
C16_UnknownIdsAreNoOps ==
    (call.op = "calculate" /\ HasUnknownId) =>
        /\ result.success
        /\ result = calculate_damage(WithoutUnknownIds)

\* A weapon id and an equipment id the tables do not hold, next to an item
\* they hold.
C16_Witness ==
    /\ Reported
    /\ data.selectedWeapon = "no_such_weapon"
    /\ \E i, j \in 1..Len(data.equipment) :
           /\ data.equipment[i] = "no_such_item"
           /\ data.equipment[j] \in DOMAIN EQUIPMENT_DB.items
    /\ result.success

\* ------------------------------------------------------------------------
\* The effective multiplier (SpecInput).

\* C17: with base_damage positive, effective_multiplier is final_damage /
\* base_damage rounded to 2 decimals: a number of at most 2 decimals within
\* 0.005 of the quotient; with base_damage 0 it is 0, and the call answers
\* with a report.
C17_EffectiveMultiplier ==
    (Answered /\ WellFormed) =>
        /\ result.success
        /\ LET base == locals.crit.base_damage
               final == locals.final_damage
               m == result.effective_multiplier
               half == DMul(DQ(5, 3), base)
           IN  /\ DLt(DZero, base) =>
                      /\ m.e <= 2
                      /\ DLe(DSub(final, half), DMul(m, base))
                      /\ DLe(DMul(m, base), DAdd(final, half))
               /\ base = DZero => m = DZero

\* A report whose base damage is 0, with damage over time that would have
\* been divided by it.
C17_Witness ==
    /\ Answered /\ WellFormed /\ result.success
    /\ locals.crit.base_damage = DZero
    /\ locals.final_damage # DZero
    /\ result.effective_multiplier = DZero

\* ------------------------------------------------------------------------
\* An optimizer request whose base config cannot be parsed (SpecOpt).

\* The number fields calculate_damage reads from the request's base config.
RequestFieldsRead ==
    IF Get(opt.request, "usePointSystem", FALSE) THEN PointFields ELSE ManualFields

\* C18: when a number field the base config is read from holds text that
\* is no numeral, the optimizer answers with the failure shape, success
\* false.
C18_UnparsableBaseFails ==
    (opt.pc = "done" /\ Len(opt.all_combinations) > 0
     /\ \E f \in RequestFieldsRead \cap DOMAIN opt.request :
            NotNumeric(opt.request[f]))
        => ~opt.response.success

\* ------------------------------------------------------------------------
\* Damage over time (SpecCalc).

\* The body in data with other crit inputs: crit rate 77 and crit damage 250
\* (manual input), dexterity 11 (attribute points).
WithOtherCrit ==
    IF data.usePointSystem
    THEN [data EXCEPT !.dexterity = JNum(DInt(11))]
    ELSE [data EXCEPT !.critRate = JNum(DInt(77)), !.critDamage = JNum(DInt(250))]

\* The pools of the report, each scaled by its chance capped at 1, and the
\* blood butcher pool whole.
PoolSum ==
    LET d == locals.dot
    IN  DAdd(DAdd(DAdd(DMul(d.burn_damage, DMin(d.burn_chance, DInt(1))),
                       DMul(d.bleeding_damage, DMin(d.bleed_chance, DInt(1)))),
                  DMul(d.poison_damage, DMin(d.poison_chance, DInt(1)))),
             d.blood_damage)

\* The factor of the cursed spellbook and the dual sword on total damage.
FlatFactor ==
    DMul(IF In("cursed_spellbook", locals.equipment) THEN DQ(13, 1) ELSE DInt(1),
         IF In("dual_sword", locals.equipment) THEN DQ(115, 2) ELSE DInt(1))

\* C19: dot_damage is the sum of the pools and nothing else: the same body
\* with other crit inputs reports the same dot_damage; the crit
\* multiplier, the x1.3 of cursed_spellbook and the x1.15 of dual_sword
\* scale total damage only; and final_damage is that total plus
\* dot_damage.
C19_DotIsAdditive ==
    Reported =>
        /\ locals.dot.dot_damage = PoolSum
        /\ result.dot_damage = calculate_damage(WithOtherCrit).dot_damage
        /\ locals.total_damage = DMul(locals.crit.total_damage, FlatFactor)
        /\ locals.final_damage = DAdd(locals.total_damage, locals.dot.dot_damage)

\* A report with damage over time and a cursed spellbook, whose final
\* damage, but not its dot_damage, changes with the crit inputs.
C19_Witness ==
    /\ Reported
    /\ DLt(DZero, locals.dot.dot_damage)
    /\ In("cursed_spellbook", locals.equipment)
    /\ result.final_damage # calculate_damage(WithOtherCrit).final_damage
    /\ result.dot_damage = calculate_damage(WithOtherCrit).dot_damage

\* C20: every pool is computed from the values the potion step left,
\* before the set bonuses: burn magic*0.33*5 (+ magic*0.20 with
\* volatile_gem), bleed avg*0.25*5, poison magic*0.40*5 + magic*0.20,
\* blood butcher min*0.05*9.
C20_PoolsFromPotionStep ==
    Reported =>
        LET p == locals.after_potions
            d == locals.dot
            magic == p.effective_magic_damage
        IN  /\ DLt(DZero, d.burn_chance) =>
                   d.burn_damage =
                       DAdd(DMul(DMul(magic, DQ(33, 2)), DInt(5)),
                            IF In("volatile_gem", locals.equipment)
                            THEN DMul(magic, DQ(20, 2)) ELSE DZero)
            /\ DLt(DZero, d.bleed_chance) =>
                   d.bleeding_damage =
                       DMul(DMul(p.effective_avg_physical_damage, DQ(25, 2)), DInt(5))
            /\ DLt(DZero, d.poison_chance) =>
                   d.poison_damage =
                       DAdd(DMul(DMul(magic, DQ(40, 2)), DInt(5)),
                            DMul(magic, DQ(20, 2)))
            /\ In("blood_butcher", locals.equipment) =>
                   d.blood_damage =
                       DMul(DMul(p.effective_min_damage, DQ(5, 2)), DInt(9))

\* ------------------------------------------------------------------------
\* Manual input (SpecInput).

\* A manual body without weapon and equipment: the damage and crit totals
\* of the call are the values the manual fields gave.
BareManual ==
    /\ Answered /\ WellFormed
    /\ ~Get(data, "usePointSystem", FALSE)
    /\ Get(data, "selectedWeapon", "") = ""
    /\ Get(data, "equipment", <<>>) = <<>>

Absent(f) == ~Has(data, f)

SuppliedZero(f) == Has(data, f) /\ data[f].n = DZero

\* The value taken for field f when the fallback fb stands in for an absent
\* field, and for a zero if for_zero.
ValueTaken(f, fb, for_zero) ==
    IF Absent(f) \/ (for_zero /\ SuppliedZero(f)) THEN fb ELSE data[f].n

\* C21: in manual mode minDamage, maxDamage and magicDamage give way to
\* the fallbacks 8, 15 and 10 when absent and when supplied as zero;
\* critRate and critDamage give way to 1 and 100 only when absent, a
\* supplied zero is used as zero; every other supplied value is used as is.
C21_ManualFallbacks ==
    BareManual =>
        /\ locals.min_damage = ValueTaken("minDamage", DInt(8), TRUE)
        /\ locals.max_damage = ValueTaken("maxDamage", DInt(15), TRUE)
        /\ locals.magic_damage = ValueTaken("magicDamage", DInt(10), TRUE)
        /\ locals.total_crit_rate = ValueTaken("critRate", DInt(1), FALSE)
        /\ locals.total_crit_damage = ValueTaken("critDamage", DInt(100), FALSE)

\* critRate supplied as zero and used as zero, next to a minDamage that is
\* supplied and not zero.
C21_Witness ==
    /\ BareManual /\ result.success
    /\ SuppliedZero("critRate") /\ locals.total_crit_rate = DZero
    /\ Has(data, "minDamage") /\ locals.min_damage = data.minDamage.n

\* C21 as stated: each of the five fields gives way to its fallback when
\* absent and when supplied as zero.
C21_AsStated ==
    BareManual =>
        /\ locals.min_damage = ValueTaken("minDamage", DInt(8), TRUE)
        /\ locals.max_damage = ValueTaken("maxDamage", DInt(15), TRUE)
        /\ locals.magic_damage = ValueTaken("magicDamage", DInt(10), TRUE)
        /\ locals.total_crit_rate = ValueTaken("critRate", DInt(1), TRUE)
        /\ locals.total_crit_damage = ValueTaken("critDamage", DInt(100), TRUE)

\* ------------------------------------------------------------------------
\* The weapon in the set tally (SpecCalc).

\* The set of the piece id of a table; "" for a piece without a set and for
\* an id the table does not hold.
SetOfPiece(table, id) == Get(DbGet(table, id), "set", "")

\* The number of entries of the equipment list that belong to set s.
Occurrences(equipment, s) ==
    Cardinality({ i \in 1..Len(equipment) :
                    SetOfPiece(EQUIPMENT_DB, equipment[i]) = s })

\* The number of entries of the equipment list that are item.
Copies(equipment, item) ==
    Cardinality({ i \in 1..Len(equipment) : equipment[i] = item })

\* C22: the tally of every set is the selected weapon's set piece plus one
\* for each entry of the equipment list in that set, duplicates included;
\* winter_howl with one black_wolf_necklace has the wolf_howl bonus of +12
\* crit rate, and divine_blade with one hunting_dagger has the explorer flag.
C22_WeaponCountsTowardSet ==
    Reported =>
        LET weapon == locals.selected_weapon
            equipment == locals.equipment
        IN  /\ \A s \in DOMAIN locals.set_counts :
                   locals.set_counts[s] =
                       (IF weapon # "" /\ SetOfPiece(WEAPON_DB, weapon) = s THEN 1 ELSE 0)
                       + Occurrences(equipment, s)
            /\ \A item \in SetOf(equipment) :
                   LET s == SetOfPiece(EQUIPMENT_DB, item)
                   IN  s # "" => locals.set_counts[s] >= Copies(equipment, item)
            /\ (weapon = "winter_howl" /\ Copies(equipment, "black_wolf_necklace") = 1) =>
                   /\ locals.set_counts["wolf_howl"] >= 2
                   /\ locals.set_bonus_applied["wolf_howl"]
                   /\ locals.total_crit_rate = DAdd(locals.crit_rate, DInt(12))
            /\ (weapon = "divine_blade" /\ Copies(equipment, "hunting_dagger") = 1) =>
                   /\ locals.set_counts["explorer"] >= 2
                   /\ locals.set_bonus_applied["explorer"]

\* winter_howl and a single black_wolf_necklace: tally 2 and the bonus.
C22_Witness ==
    /\ Reported
    /\ locals.selected_weapon = "winter_howl"
    /\ locals.equipment = <<"black_wolf_necklace">>
    /\ locals.set_counts["wolf_howl"] = 2
    /\ locals.set_bonus_applied["wolf_howl"]

\* ------------------------------------------------------------------------
\* The order of the equipment list (SpecCalc).

\* Every reordering of the sequence s.
Reorderings(s) ==
    { [i \in 1..Len(s) |-> s[f[i]]] : f \in Permutations(1..Len(s)) }

\* The unrounded damage, crit, set and DoT values of a call.
Unrounded(L) ==
    [min_damage |-> L.min_damage, max_damage |-> L.max_damage,
     magic_damage |-> L.magic_damage,
     total_crit_rate |-> L.total_crit_rate,
     total_crit_damage |-> L.total_crit_damage,
     crit |-> L.crit, set_counts |-> L.set_counts,
     set_bonus_applied |-> L.set_bonus_applied, dot |-> L.dot,
     total_damage |-> L.total_damage, final_damage |-> L.final_damage]

\* C23: the report of calculate_damage is the same for every reordering of
\* the equipment list of its config, and so are the unrounded damage, crit,
\* set and DoT values behind it.
C23_EquipmentOrderIrrelevant ==
    Reported =>
        \A e \in Reorderings(data.equipment) :
            LET v == calculate_locals([data EXCEPT !.equipment = e])
            IN  /\ response_of(v) = result
                /\ Unrounded(v) = Unrounded(locals)

\* Three different pieces, two of them with crit damage, from three sets:
\* six orders.
C23_Witness ==
    /\ Reported
    /\ Cardinality(Reorderings(data.equipment)) = 6
    /\ Copies(data.equipment, "black_wolf_necklace") = 1
    /\ Copies(data.equipment, "crimson_slime_fang") = 1
    /\ DLt(DZero, locals.dot.dot_damage)

\* ------------------------------------------------------------------------
\* The three hits and their total (SpecThreeHit).

\* C24: for every weapon type the unrounded result of
\* calculate_three_hit_damage has total_damage = hit_1 + hit_2 + hit_3 +
\* bonus_damage, a bonus_damage of zero for every weapon type but staff,
\* and hit_1 <= hit_2 <= hit_3 when the total damage handed in
\* (crit_multiplied_damage) is not negative.
C24_HitsSumToTotal ==
    call.op = "three_hit" =>
        LET h == three_hit.out
            T == three_hit.arg.crit_multiplied_damage
        IN  /\ h.total_damage =
                   DAdd(DAdd(DAdd(h.hit_1, h.hit_2), h.hit_3), h.bonus_damage)
            /\ three_hit.arg.weapon_type # "staff" => h.bonus_damage = DZero
            /\ DLe(DZero, T) => DLe(h.hit_1, h.hit_2) /\ DLe(h.hit_2, h.hit_3)

\* The staff with a bonus that is not zero, on a negative DoT.
C24_Witness ==
    /\ call.op = "three_hit"
    /\ three_hit.arg.weapon_type = "staff"
    /\ DLt(DZero, three_hit.arg.crit_multiplied_damage)
    /\ DLt(three_hit.arg.dot_damage, DZero)
    /\ DLt(DZero, three_hit.out.bonus_damage)
    /\ three_hit.out.hit_1 = three_hit.out.hit_3

\* ------------------------------------------------------------------------
\* The recommended allocation (SpecStats).

\* The points of a recommendation and the vitality of its request.
PointsUsed(vitality, rec) ==
    DAdd(DAdd(DAdd(DAdd(vitality, rec.strength), rec.intelligence),
              rec.dexterity), rec.defense)

\* C25: for a level and a vitality that are integers and not negative,
\* optimize_stats with vitality < 2 * playerLevel recommends an allocation
\* with vitality + strength + intelligence + dexterity + defense =
\* 2 * playerLevel and remaining 0, dexterity at most 50, defense 0,
\* strength 0 for a staff and intelligence 0 for every other weapon; with
\* vitality >= 2 * playerLevel it recommends zeros with success true.
C25_AllPointsSpent ==
    call.op = "optimize_stats" =>
        LET level == advice.request.playerLevel
            vitality == advice.request.vitality.n
            weapon == advice.request.selectedWeapon
            staff == weapon # "" /\ Get(DbGet(WEAPON_DB, weapon), "type", "") = "staff"
            rec == advice.response.recommendation
        IN  /\ advice.response.success
            /\ DLt(vitality, DInt(2 * level)) =>
                   /\ PointsUsed(vitality, rec) = DInt(2 * level)
                   /\ rec.total_used = DInt(2 * level)
                   /\ rec.remaining = DZero
                   /\ DLe(rec.dexterity, DInt(50))
                   /\ DLe(DZero, rec.dexterity)
                   /\ rec.defense = DZero
                   /\ IF staff THEN rec.strength = DZero /\ DLe(DZero, rec.intelligence)
                               ELSE rec.intelligence = DZero /\ DLe(DZero, rec.strength)
            /\ DLe(DInt(2 * level), vitality) =>
                   /\ rec.strength = DZero /\ rec.intelligence = DZero
                   /\ rec.dexterity = DZero /\ rec.defense = DZero

\* A staff at level 190: dexterity at its cap of 50, and an intelligence
\* above 65% of the remaining points, the unspent points added.
C25_Witness ==
    /\ call.op = "optimize_stats"
    /\ advice.request.playerLevel = 190
    /\ advice.request.selectedWeapon = "emerald_staff"
    /\ advice.request.vitality.n = DInt(5)
    /\ advice.response.recommendation.dexterity = DInt(50)
    /\ advice.response.recommendation.strength = DZero
    /\ advice.response.recommendation.intelligence = DInt(325)
    /\ advice.response.recommendation.remaining = DZero

====
